---- MODULE Spec2Model ----
(***************************************************************************)
(* Resilient update orchestrator of the stock-screening backend:           *)
(* CircuitBreaker (circuit_breaker.py), TokenBucket / ExponentialBackoff / *)
(* RateLimiter (rate_limiter.py) and the protected API call of             *)
(* VnStockCollector (vnstock_collector.py).                                *)
(*                                                                         *)
(* Concurrency is that of one asyncio event loop: code between two real    *)
(* suspension points runs atomically.  Taking an uncontended asyncio.Lock  *)
(* and awaiting a coroutine that never suspends do not yield, so the       *)
(* admission block of execute and the two record_* methods are each one    *)
(* step; the wrapped function, asyncio.sleep and run_in_executor are the   *)
(* suspension points between steps.  The clock (time.monotonic) is an      *)
(* integer number of ticks.                                                *)
(***************************************************************************)
EXTENDS Integers, Sequences, FiniteSets, TLC

\* ---------------------------------------------------------------- bounds
NumTasks == 2          \* concurrent asyncio tasks calling into the objects
MaxTime == 3           \* last clock tick explored
MaxInterval == 2       \* the worker's update intervals, in ticks
MaxCalls == 3          \* calls made in one behaviour, force_* included
MaxThreshold == 2      \* failure_threshold is drawn from 1..MaxThreshold
MaxTimeout == 2        \* recovery_timeout is drawn from 1..MaxTimeout
MaxCapacity == 2       \* bucket capacity is drawn from 1..MaxCapacity
MaxRate == 2           \* refill_rate is drawn from 1..MaxRate tokens a tick
BackoffMax == 2        \* max_delay of the backoff, in ticks
MaxRequest == 3        \* acquire / try_acquire ask for 1..MaxRequest tokens
MaxBaseDelay == 10     \* base_delay is drawn from 1..MaxBaseDelay
MaxMaxDelay == 20      \* max_delay is drawn from base_delay..MaxMaxDelay
MaxMultiplier == 3     \* multiplier is drawn from 1..MaxMultiplier
NumSymbols == 2        \* rows of the stocks table

Tasks == 1..NumTasks
Symbols == 1..NumSymbols

\* default of CircuitBreaker.__init__
half_open_max_calls == 1

\* ------------------------------------------------------- values and enums
CLOSED == "closed"
OPEN == "open"
HALF_OPEN == "half_open"
CircuitState == {CLOSED, OPEN, HALF_OPEN}

\* None of an Optional[float] field and of the lock's owner
None == 0 - 1

\* what the wrapped function can do: return a value, raise an Exception
\* (asyncio.TimeoutError is one), or be cancelled while awaited
\* (CancelledError derives from BaseException, not Exception)
Returns == {"v1", "v2"}
Raises == {"Exception", "TimeoutError"}
Cancelled == "CancelledError"
CircuitOpenError == "CircuitOpenError"
Outcomes == Returns \cup Raises \cup {Cancelled}

Min(a, b) == IF a <= b THEN a ELSE b

VARIABLES
  now,           \* time.monotonic()
  pc,            \* per task: where it is suspended
  call,          \* per task: the locals of its current / last call
  breaker,       \* the CircuitBreaker object, its stats included
  token_bucket,  \* the TokenBucket object, its asyncio.Lock included
  backoff,       \* the ExponentialBackoff object
  rate_limiter,  \* the RateLimiter's statistics
  collector,     \* the VnStockCollector's statistics
  result,        \* what the call that ended last handed to its caller
  hist,          \* history: call-count spy on fn, moment of opening, ...
  registry,      \* the stocks and data_update_tracker tables
  worker,        \* the DataWorker object and its asyncio task
  batch,         \* the locals of collect_batch_price_history
  scheduler,     \* the UpdateScheduler, its tasks and execute_task frames
  data_versions  \* the price rows of the data_versions table

vars == <<now, pc, call, breaker, token_bucket, backoff, rate_limiter,
          collector, result, hist, registry, worker, batch, scheduler,
                 data_versions>>

\* ------------------------------------------------------- CircuitBreaker
CircuitBreakerStats ==
  [total_calls |-> 0, successful_calls |-> 0, failed_calls |-> 0,
   rejected_calls |-> 0, state_changes |-> 0,
   last_failure_time |-> None]

CircuitBreaker(threshold, timeout) ==
  [failure_threshold |-> threshold, recovery_timeout |-> timeout,
   half_open_max_calls |-> half_open_max_calls,
   state |-> CLOSED, failure_count |-> 0, last_failure_time |-> None,
   half_open_calls |-> 0, stats |-> CircuitBreakerStats]

is_open(b) == b.state = OPEN

transition_to(b, new_state) ==
  LET b1 == [b EXCEPT !.state = new_state, !.stats.state_changes = @ + 1]
  IN  IF new_state = HALF_OPEN THEN [b1 EXCEPT !.half_open_calls = 0]
      ELSE IF new_state = CLOSED THEN [b1 EXCEPT !.failure_count = 0]
      ELSE b1

\* `if self._last_failure_time:` is a truth test: None and 0.0 both fail it
Truthy(x) == x # None /\ x # 0

\* mutant: the Open branch lets a call through without looking at the clock
should_allow_request_no_timeout(b, t) ==
  IF b.state = CLOSED THEN [allow |-> TRUE, b |-> b]
  ELSE IF b.state = OPEN THEN
    [allow |-> TRUE, b |-> transition_to(b, HALF_OPEN)]
  ELSE
    IF b.half_open_calls < b.half_open_max_calls
    THEN [allow |-> TRUE, b |-> [b EXCEPT !.half_open_calls = @ + 1]]
    ELSE [allow |-> FALSE, b |-> [b EXCEPT !.stats.rejected_calls = @ + 1]]

\* mutant: a rejection while Open restarts the recovery timer
should_allow_request_restart(b, t) ==
  IF b.state = CLOSED THEN [allow |-> TRUE, b |-> b]
  ELSE IF b.state = OPEN THEN
    IF Truthy(b.last_failure_time)
         /\ t - b.last_failure_time >= b.recovery_timeout
    THEN [allow |-> TRUE, b |-> transition_to(b, HALF_OPEN)]
    ELSE [allow |-> FALSE, b |-> [b EXCEPT !.stats.rejected_calls = @ + 1,
                                           !.last_failure_time = t]]
  ELSE
    IF b.half_open_calls < b.half_open_max_calls
    THEN [allow |-> TRUE, b |-> [b EXCEPT !.half_open_calls = @ + 1]]
    ELSE [allow |-> FALSE, b |-> [b EXCEPT !.stats.rejected_calls = @ + 1]]

should_allow_request(b, t) ==
  IF b.state = CLOSED THEN [allow |-> TRUE, b |-> b]
  ELSE IF b.state = OPEN THEN
    IF Truthy(b.last_failure_time)
         /\ t - b.last_failure_time >= b.recovery_timeout
    THEN [allow |-> TRUE, b |-> transition_to(b, HALF_OPEN)]
    ELSE [allow |-> FALSE, b |-> [b EXCEPT !.stats.rejected_calls = @ + 1]]
  ELSE \* HALF_OPEN
    IF b.half_open_calls < b.half_open_max_calls
    THEN [allow |-> TRUE, b |-> [b EXCEPT !.half_open_calls = @ + 1]]
    ELSE [allow |-> FALSE, b |-> [b EXCEPT !.stats.rejected_calls = @ + 1]]

\* mutant: a success in HalfOpen does not close the circuit
record_success_no_close(b, t) ==
  [b EXCEPT !.stats.successful_calls = @ + 1, !.failure_count = 0]

record_success(b, t) ==
  LET b1 == [b EXCEPT !.stats.successful_calls = @ + 1]
      b2 == IF b1.state = HALF_OPEN THEN transition_to(b1, CLOSED) ELSE b1
  IN  [b2 EXCEPT !.failure_count = 0]

\* mutant: the threshold test is `>` instead of `>=`
record_failure_late(b, t) ==
  LET b1 == [b EXCEPT !.stats.failed_calls = @ + 1,
                      !.failure_count = @ + 1,
                      !.last_failure_time = t,
                      !.stats.last_failure_time = t]
  IN  IF b1.state = HALF_OPEN THEN transition_to(b1, OPEN)
      ELSE IF b1.failure_count > b1.failure_threshold
           THEN transition_to(b1, OPEN)
      ELSE b1

record_failure(b, t) ==
  LET b1 == [b EXCEPT !.stats.failed_calls = @ + 1,
                      !.failure_count = @ + 1,
                      !.last_failure_time = t,
                      !.stats.last_failure_time = t]
  IN  IF b1.state = HALF_OPEN THEN transition_to(b1, OPEN)
      ELSE IF b1.failure_count >= b1.failure_threshold
           THEN transition_to(b1, OPEN)
      ELSE b1

force_close(b) == transition_to(b, CLOSED)

force_open(b, t) == [transition_to(b, OPEN) EXCEPT !.last_failure_time = t]

\* mutant: the handler names the exceptions it expects, timeouts not among
\* them
except_Exception_listed(out) == out \in Raises \ {"TimeoutError"}

\* `except Exception` of execute and of _protected_api_call: which of the
\* things fn can end with the handler sees
except_Exception(out) == out \in Raises

\* mutant: a failure of fn is turned into the synthetic error
execute_result_masked(out) ==
  IF out \in Returns THEN [kind |-> "return", value |-> out]
  ELSE [kind |-> "raise", value |-> CircuitOpenError]

\* what execute hands to its caller once fn has ended with `out`:
\* `return result` after record_success, bare `raise` after record_failure
execute_result(out) ==
  IF out \in Returns THEN [kind |-> "return", value |-> out]
  ELSE [kind |-> "raise", value |-> out]

\* ---------------------------------------------------------- TokenBucket
\* tokens are whole units and refill_rate is units per tick
TokenBucket(capacity, rate, t) ==
  [capacity |-> capacity, refill_rate |-> rate, tokens |-> capacity,
   last_refill |-> t, locked_by |-> None, waiters |-> <<>>]

refill(tb, t) ==
  [tb EXCEPT !.tokens = Min(tb.capacity,
                            tb.tokens + (t - tb.last_refill) * tb.refill_rate),
             !.last_refill = t]

\* mutant: a request is cut down to what the bucket can hold
wait_time_capped(tb, n) ==
  ((Min(n, tb.capacity) - tb.tokens) + tb.refill_rate - 1) \div tb.refill_rate

\* the available_tokens property: the stored count, as it is
available_tokens(tb) == tb.tokens

\* wait_time = tokens_needed / refill_rate, in whole ticks of the clock
wait_time(tb, n) == ((n - tb.tokens) + tb.refill_rate - 1) \div tb.refill_rate

\* asyncio.Lock is free for a newcomer only when nobody holds it and
\* nobody queues for it; release hands it to the head of the queue
lock_free(tb) == tb.locked_by = None /\ tb.waiters = <<>>

\* --------------------------------------------------- ExponentialBackoff
ExponentialBackoff(base, maxd, mult) ==
  [base_delay |-> base, max_delay |-> maxd, multiplier |-> mult,
   jitter_num |-> 1, jitter_den |-> 10,
   current_delay |-> base, failure_count |-> 0]

\* the delays next_delay can return: current_delay +- delay * jitter
jittered(bo) ==
  {d \in 0..(2 * bo.current_delay) :
     /\ d * bo.jitter_den >= bo.current_delay * (bo.jitter_den - bo.jitter_num)
     /\ d * bo.jitter_den <= bo.current_delay * (bo.jitter_den + bo.jitter_num)}

\* mutant: the delay is never capped
next_delay_uncapped(bo) ==
  [bo EXCEPT !.failure_count = @ + 1,
             !.current_delay = bo.current_delay * bo.multiplier]

\* mutant: the next delay is grown from base_delay
next_delay_from_base(bo) ==
  [bo EXCEPT !.failure_count = @ + 1,
             !.current_delay = Min(bo.base_delay * bo.multiplier,
                                   bo.max_delay)]

next_delay(bo) ==
  [bo EXCEPT !.failure_count = @ + 1,
             !.current_delay = Min(bo.current_delay * bo.multiplier,
                                   bo.max_delay)]

reset(bo) == [bo EXCEPT !.current_delay = bo.base_delay, !.failure_count = 0]

\* ----------------------------------------------------------- RateLimiter
RateLimiter == [total_requests |-> 0, total_wait_time |-> 0,
                total_failures |-> 0]

VnStockCollector == [total_api_calls |-> 0, successful_calls |-> 0,
                     failed_calls |-> 0]

\* ---------------------------------------------------- DataUpdateRegistry
\* two of the data types, with the priorities of DEFAULT_UPDATE_CONFIGS; the
\* clock of the registry ticks in hours, and the 24 hours of HISTORY are
\* scaled to 2 ticks
PRICE == "price"
HISTORY == "history"
DataType == {PRICE, HISTORY}

DEFAULT_UPDATE_CONFIGS ==
  [k \in DataType |->
     IF k = PRICE THEN [update_interval_hours |-> 1, priority |-> 1]
     ELSE [update_interval_hours |-> 2, priority |-> 2]]

\* what the LEFT JOIN gives for a symbol without a data_update_tracker row
NoRecord == [last_update |-> None, next_update_due |-> None,
             update_count |-> 0, last_status |-> "none", priority |-> None]

\* the tables: stocks.is_active per symbol, and data_update_tracker keyed by
\* (symbol, data_type)
DataUpdateRegistry(inactive) ==
  [is_active |-> [s \in Symbols |-> s \notin inactive],
   tracker |-> [s \in Symbols |-> [k \in DataType |-> NoRecord]]]

\* mutant: the ON CONFLICT branch leaves last_status as it was
mark_symbol_updated_keeps_status(reg, symbol, data_type, status, t) ==
  LET config == DEFAULT_UPDATE_CONFIGS[data_type]
      old == reg.tracker[symbol][data_type]
      new == IF old = NoRecord
             THEN [last_update |-> t,
                   next_update_due |-> t + config.update_interval_hours,
                   update_count |-> 1, last_status |-> status,
                   priority |-> config.priority]
             ELSE [old EXCEPT !.last_update = t,
                              !.next_update_due
                                 = t + config.update_interval_hours,
                              !.update_count = @ + 1]
  IN  [reg EXCEPT !.tracker[symbol][data_type] = new]

\* mutant: the ON CONFLICT branch leaves last_update as it was
mark_symbol_updated_stale_stamp(reg, symbol, data_type, status, t) ==
  LET config == DEFAULT_UPDATE_CONFIGS[data_type]
      old == reg.tracker[symbol][data_type]
      new == IF old = NoRecord
             THEN [last_update |-> t,
                   next_update_due |-> t + config.update_interval_hours,
                   update_count |-> 1, last_status |-> status,
                   priority |-> config.priority]
             ELSE [old EXCEPT !.next_update_due
                                 = t + config.update_interval_hours,
                              !.update_count = @ + 1,
                              !.last_status = status]
  IN  [reg EXCEPT !.tracker[symbol][data_type] = new]

\* mutant: the ON CONFLICT branch leaves next_update_due as it was
mark_symbol_updated_keeps_due(reg, symbol, data_type, status, t) ==
  LET config == DEFAULT_UPDATE_CONFIGS[data_type]
      old == reg.tracker[symbol][data_type]
      new == IF old = NoRecord
             THEN [last_update |-> t,
                   next_update_due |-> t + config.update_interval_hours,
                   update_count |-> 1, last_status |-> status,
                   priority |-> config.priority]
             ELSE [old EXCEPT !.last_update = t,
                              !.update_count = @ + 1,
                              !.last_status = status]
  IN  [reg EXCEPT !.tracker[symbol][data_type] = new]

\* the upsert of mark_symbol_updated at time t.  isoformat() strings of
\* datetime.now() compare as the instants do, so instants are kept as ticks
mark_symbol_updated(reg, symbol, data_type, status, t) ==
  LET config == DEFAULT_UPDATE_CONFIGS[data_type]
      old == reg.tracker[symbol][data_type]
      new == IF old = NoRecord
             THEN [last_update |-> t,
                   next_update_due |-> t + config.update_interval_hours,
                   update_count |-> 1, last_status |-> status,
                   priority |-> config.priority]
             ELSE [old EXCEPT !.last_update = t,
                              !.next_update_due
                                 = t + config.update_interval_hours,
                              !.update_count = @ + 1,
                              !.last_status = status]
  IN  [reg EXCEPT !.tracker[symbol][data_type] = new]

\* mutant: a failed row waits for its interval like any other
where_due_no_retry(row, cutoff_time) ==
  \/ row.last_update = None
  \/ row.last_update < cutoff_time

\* the WHERE clause on the joined row (lines 101-106)
where_due(row, cutoff_time) ==
  \/ row.last_update = None
  \/ row.last_update < cutoff_time
  \/ row.last_status = "failed"

\* mutant: the rows updated last come first
order_by_newest_first(a, b) ==
  LET fa == IF a.last_update = None THEN 0 ELSE 1
      fb == IF b.last_update = None THEN 0 ELSE 1
  IN  \/ fa < fb
      \/ fa = fb /\ a.priority < b.priority
      \/ fa = fb /\ a.priority = b.priority
                 /\ a.last_update >= b.last_update

\* the ORDER BY clause (lines 107-110): row a may come before row b
order_by(a, b) ==
  LET fa == IF a.last_update = None THEN 0 ELSE 1
      fb == IF b.last_update = None THEN 0 ELSE 1
  IN  \/ fa < fb
      \/ fa = fb /\ a.priority < b.priority
      \/ fa = fb /\ a.priority = b.priority
                 /\ a.last_update <= b.last_update

\* the lists get_symbols_needing_update can return at time t: the selected
\* symbols in an order the ORDER BY allows (rows that tie come in any
\* order), cut at LIMIT
get_symbols_needing_update(reg, data_type, limit, t) ==
  LET cutoff_time == t - DEFAULT_UPDATE_CONFIGS[data_type]
                            .update_interval_hours
      row(s) == reg.tracker[s][data_type]
      selected == {s \in Symbols : /\ reg.is_active[s]
                                   /\ where_due(row(s), cutoff_time)}
      n == Cardinality(selected)
      sorted == {f \in [1..n -> selected] :
                   /\ \A i, j \in 1..n : i # j => f[i] # f[j]
                   /\ \A i, j \in 1..n :
                        i < j => order_by(row(f[i]), row(f[j]))}
  IN  {SubSeq(f, 1, Min(limit, n)) : f \in sorted}

\* ------------------------------------------------------------- history
\* hist.fn_calls   call-count spy: how often a wrapped function was invoked
\* hist.opened_at  the moment the breaker last entered Open
\* hist.probes     execute calls that reached fn since the breaker last
\*                 entered HalfOpen, the call that made the transition
\*                 included
\* hist.streak     outcomes recorded as failures since the last recorded
\*                 success or the last force_close
\* hist.calls      calls made so far
\* hist.burst      rate meter on the bucket's grants, as of hist.burst_at:
\*                 the largest, over the intervals that end then, of the
\*                 tokens granted in the interval less refill_rate times
\*                 its length
\* hist.marked     the last mark_symbol_updated call: its arguments and the
\*                 moment it was made
\* hist.failed_marks  per (symbol, data type): the marks with status failed
\*                 made since the last mark with status success
\* clear_failed_status (lines 363-382): the rows of `symbol`, or of every
\* symbol when it is None, whose last_status is failed become pending
clear_failed_status(reg, symbol) ==
  [reg EXCEPT !.tracker =
     [s \in Symbols |-> [k \in DataType |->
        IF /\ symbol = None \/ s = symbol
           /\ reg.tracker[s][k].last_status = "failed"
        THEN [reg.tracker[s][k] EXCEPT !.last_status = "pending"]
        ELSE reg.tracker[s][k]]]]

\* get_update_summary (lines 172-249): symbols_tracked counts the active
\* stocks; per data type up_to_date counts the tracker rows with status
\* success stamped at or after the cutoff, failed those with status
\* failed, never_updated the active stocks without a row; needing_update
\* is symbols_tracked - up_to_date
get_update_summary(reg, t) ==
  LET total_symbols == Cardinality({s \in Symbols : reg.is_active[s]})
      up_to_date(k) ==
        Cardinality({s \in Symbols :
           /\ reg.tracker[s][k].update_count > 0
           /\ reg.tracker[s][k].last_status = "success"
           /\ reg.tracker[s][k].last_update
                >= t - DEFAULT_UPDATE_CONFIGS[k].update_interval_hours})
      failed(k) ==
        Cardinality({s \in Symbols :
                       reg.tracker[s][k].last_status = "failed"})
      never_updated(k) ==
        Cardinality({s \in Symbols :
           reg.is_active[s] /\ reg.tracker[s][k].update_count = 0})
      all_up_to_date ==
        Cardinality({<<s, k>> \in Symbols \X DataType :
           /\ reg.tracker[s][k].update_count > 0
           /\ reg.tracker[s][k].last_status = "success"
           /\ reg.tracker[s][k].last_update
                >= t - DEFAULT_UPDATE_CONFIGS[k].update_interval_hours})
  IN  [by_data_type |->
         [k \in DataType |->
            [up_to_date |-> up_to_date(k),
             needing_update |-> total_symbols - up_to_date(k),
             never_updated |-> never_updated(k),
             failed |-> failed(k)]],
       totals |->
         [symbols_tracked |-> total_symbols,
          up_to_date |-> all_up_to_date,
          needing_update |->
            total_symbols * Cardinality(DataType) - all_up_to_date]]

NoMark == [symbol |-> 0, data_type |-> "none", status |-> "none",
           at |-> None]

NoHist == [fn_calls |-> 0, opened_at |-> None, probes |-> 0, streak |-> 0,
           calls |-> 0, burst |-> 0, burst_at |-> 0, marked |-> NoMark,
           failed_marks |-> [s \in Symbols |-> [k \in DataType |-> 0]]]

\* locals of a call in progress: its entry point, the breaker state it was
\* admitted in, the tokens it asks for, the end of its sleep, its wait
\* time, what fn ended with; and, for a sleeping acquire, the token count
\* it found on taking the lock and what its first _refill added
NoCall == [kind |-> "none", admitted_in |-> "none", n |-> 0, wake_at |-> 0,
           wait_time |-> 0, fnout |-> "none", entry_tokens |-> 0,
           refilled |-> 0, data_type |-> "none"]

Raise(e) == [kind |-> "raise", value |-> e]
Return(v) == [kind |-> "return", value |-> v]

\* a finished call: its entry point, the tokens it asked for, what it handed
\* to its caller, what fn ended with ("none": fn was not invoked), and the
\* wait time an acquire returns; for a registry query its data type (with
\* the limit as n) and the rows it returned
Result(c, ret, fnout, wait) ==
  [kind |-> c.kind, n |-> c.n, ret |-> ret, fnout |-> fnout, wait |-> wait,
   data_type |-> c.data_type, items |-> <<>>]

NoResult == Result(NoCall, Raise("none"), "none", 0)

Max(a, b) == IF a >= b THEN a ELSE b

\* history after the bucket tb granted n tokens to a caller
Granted(h, tb, n) ==
  [h EXCEPT !.burst = Max(0, @ - tb.refill_rate * (now - h.burst_at)) + n,
            !.burst_at = now]

\* history after a step that took the breaker from b to b2
Moved(h, b, b2, op) ==
  [h EXCEPT !.opened_at = IF b.state # OPEN /\ b2.state = OPEN
                          THEN now ELSE @,
            !.streak = IF op = "failure" THEN @ + 1
                       ELSE IF op = "success" THEN 0
                       ELSE IF op = "force_close" THEN 0
                       ELSE @]

\* ------------------------------------------------ CircuitBreaker.execute
\* admission block (lines 210-217): reject, or count the call and enter fn
Execute(t) ==
  /\ UNCHANGED <<registry, worker, batch, scheduler,
                 data_versions>>
  /\ pc[t] = "idle"
  /\ hist.calls < MaxCalls
  /\ LET r == should_allow_request(breaker, now)
         c == [NoCall EXCEPT !.kind = "execute", !.admitted_in = r.b.state]
         h == [hist EXCEPT !.calls = @ + 1]
     IN  IF ~r.allow
         THEN /\ breaker' = r.b
              /\ result' = Result(c, Raise(CircuitOpenError), "none", 0)
              /\ hist' = Moved(h, breaker, r.b, "reject")
              /\ UNCHANGED <<pc, call>>
         ELSE /\ breaker' = [r.b EXCEPT !.stats.total_calls = @ + 1]
              /\ call' = [call EXCEPT ![t] = c]
              /\ hist' = [Moved(h, breaker, r.b, "admit") EXCEPT
                            !.fn_calls = @ + 1,
                            !.probes = IF r.b.state # HALF_OPEN THEN @
                                       ELSE IF breaker.state = OPEN THEN 1
                                       ELSE @ + 1]
              /\ pc' = [pc EXCEPT ![t] = "exec_fn"]
              /\ UNCHANGED result
  /\ UNCHANGED <<now, token_bucket, backoff, rate_limiter, collector>>

\* fn ends (lines 219-231): record the outcome, hand fn's result on
ExecuteEnd(t, out) ==
  /\ UNCHANGED <<registry, worker, batch, scheduler,
                 data_versions>>
  /\ pc[t] = "exec_fn"
  /\ pc' = [pc EXCEPT ![t] = "idle"]
  /\ call' = [call EXCEPT ![t] = NoCall]
  /\ IF out \in Returns
     THEN LET b2 == record_success(breaker, now)
          IN  /\ breaker' = b2
              /\ hist' = Moved(hist, breaker, b2, "success")
              /\ result' = Result(call[t], execute_result(out), out, 0)
     ELSE IF except_Exception(out)
     THEN LET b2 == record_failure(breaker, now)
          IN  /\ breaker' = b2
              /\ hist' = Moved(hist, breaker, b2, "failure")
              /\ result' = Result(call[t], execute_result(out), out, 0)
     ELSE /\ result' = Result(call[t], Raise(out), out, 0)
          /\ UNCHANGED <<breaker, hist>>
  /\ UNCHANGED <<now, token_bucket, backoff, rate_limiter, collector>>

ForceClose ==
  /\ UNCHANGED <<registry, worker, batch, scheduler,
                 data_versions>>
  /\ hist.calls < MaxCalls
  /\ breaker' = force_close(breaker)
  /\ hist' = [Moved(hist, breaker, breaker', "force_close") EXCEPT
                !.calls = @ + 1]
  /\ UNCHANGED <<now, pc, call, token_bucket, backoff, rate_limiter,
                 collector, result>>

ForceOpen ==
  /\ UNCHANGED <<registry, worker, batch, scheduler,
                 data_versions>>
  /\ hist.calls < MaxCalls
  /\ breaker' = force_open(breaker, now)
  /\ hist' = [Moved(hist, breaker, breaker', "force_open") EXCEPT
                !.calls = @ + 1, !.opened_at = now]
  /\ UNCHANGED <<now, pc, call, token_bucket, backoff, rate_limiter,
                 collector, result>>

Tick ==
  /\ UNCHANGED <<registry, worker, batch, scheduler,
                 data_versions>>
  /\ now < MaxTime
  /\ now' = now + 1
  /\ UNCHANGED <<pc, call, breaker, token_bucket, backoff, rate_limiter,
                 collector, result, hist>>

\* ------------------------------------------------------ TokenBucket calls
\* acquire returns `wait` to its caller c.kind: a direct caller gets the
\* wait time; RateLimiter.acquire (lines 214-217) counts it and
\* _protected_api_call goes on (lines 117-128): it raises CircuitOpenError
\* when is_open, otherwise hands fn to the executor
AcquireReturns(t, c, tb, col, h, wait) ==
  /\ token_bucket' = tb
  /\ IF c.kind = "acquire"
     THEN /\ pc' = [pc EXCEPT ![t] = "idle"]
          /\ call' = [call EXCEPT ![t] = NoCall]
          /\ result' = Result(c, Return("wait_time"), "none", wait)
          /\ collector' = col
          /\ hist' = h
          /\ UNCHANGED <<breaker, backoff, rate_limiter>>
     ELSE /\ rate_limiter' = [rate_limiter EXCEPT
                                !.total_requests = @ + 1,
                                !.total_wait_time = @ + wait]
          /\ IF is_open(breaker)
             THEN /\ collector' = [col EXCEPT !.failed_calls = @ + 1]
                  /\ pc' = [pc EXCEPT ![t] = "idle"]
                  /\ call' = [call EXCEPT ![t] = NoCall]
                  /\ result' = Result(c, Raise(CircuitOpenError),
                                      "none", 0)
                  /\ hist' = h
             ELSE /\ collector' = col
                  /\ pc' = [pc EXCEPT ![t] = "api_fn"]
                  /\ call' = [call EXCEPT ![t] =
                                [c EXCEPT !.admitted_in = breaker.state]]
                  /\ hist' = [h EXCEPT !.fn_calls = @ + 1]
                  /\ UNCHANGED result
          /\ UNCHANGED <<breaker, backoff>>

\* body of acquire under the lock (lines 50-61): refill, then consume and
\* return, or keep the lock and sleep for wait_time
AcquireBody(t, c, tb, col, h) ==
  LET tb1 == refill(tb, now)
  IN  IF tb1.tokens >= c.n
      THEN AcquireReturns(t, c, [tb1 EXCEPT !.tokens = @ - c.n,
                                            !.locked_by = None], col,
                          Granted(h, tb, c.n), 0)
      ELSE /\ token_bucket' = [tb1 EXCEPT !.locked_by = t]
           /\ pc' = [pc EXCEPT ![t] = "acq_sleep"]
           /\ call' = [call EXCEPT ![t] =
                         [c EXCEPT !.wait_time = wait_time(tb1, c.n),
                                   !.wake_at = now + wait_time(tb1, c.n),
                                   !.entry_tokens = tb.tokens,
                                   !.refilled = tb1.tokens - tb.tokens]]
           /\ collector' = col
           /\ hist' = h
           /\ UNCHANGED <<breaker, backoff, rate_limiter, result>>

\* body of try_acquire under the lock (lines 76-81)
TryAcquireBody(t, c, tb, h) ==
  LET tb1 == refill(tb, now)
  IN  /\ token_bucket' = IF tb1.tokens >= c.n
                         THEN [tb1 EXCEPT !.tokens = @ - c.n,
                                          !.locked_by = None]
                         ELSE [tb1 EXCEPT !.locked_by = None]
      /\ pc' = [pc EXCEPT ![t] = "idle"]
      /\ call' = [call EXCEPT ![t] = NoCall]
      /\ result' = Result(c, IF tb1.tokens >= c.n THEN Return("True")
                                ELSE Return("False"), "none", 0)
      /\ hist' = IF tb1.tokens >= c.n THEN Granted(h, tb, c.n) ELSE h
      /\ UNCHANGED <<breaker, backoff, rate_limiter, collector>>

\* `async with self._lock`: enter at once when the lock is free, else queue
EnterLock(t, c, col, h) ==
  /\ ~lock_free(token_bucket)
  /\ token_bucket' = [token_bucket EXCEPT !.waiters = Append(@, t)]
  /\ pc' = [pc EXCEPT ![t] = "lock_wait"]
  /\ call' = [call EXCEPT ![t] = c]
  /\ collector' = col
  /\ hist' = h
  /\ UNCHANGED <<breaker, backoff, rate_limiter, result>>

\* TokenBucket.acquire(n) called directly
Acquire(t, n) ==
  /\ UNCHANGED <<registry, worker, batch, scheduler,
                 data_versions>>
  /\ pc[t] = "idle"
  /\ hist.calls < MaxCalls
  /\ LET c == [NoCall EXCEPT !.kind = "acquire", !.n = n]
         h == [hist EXCEPT !.calls = @ + 1]
     IN  \/ lock_free(token_bucket)
            /\ AcquireBody(t, c, token_bucket, collector, h)
         \/ EnterLock(t, c, collector, h)
  /\ UNCHANGED now

\* TokenBucket.try_acquire(n)
TryAcquire(t, n) ==
  /\ UNCHANGED <<registry, worker, batch, scheduler,
                 data_versions>>
  /\ pc[t] = "idle"
  /\ hist.calls < MaxCalls
  /\ LET c == [NoCall EXCEPT !.kind = "try_acquire", !.n = n]
         h == [hist EXCEPT !.calls = @ + 1]
     IN  \/ lock_free(token_bucket) /\ TryAcquireBody(t, c, token_bucket, h)
         \/ EnterLock(t, c, collector, h)
  /\ UNCHANGED now

\* the released lock reaches the head of the queue
LockGranted(t) ==
  /\ UNCHANGED <<registry, worker, batch, scheduler,
                 data_versions>>
  /\ pc[t] = "lock_wait"
  /\ token_bucket.locked_by = None
  /\ token_bucket.waiters # <<>>
  /\ Head(token_bucket.waiters) = t
  /\ LET tb == [token_bucket EXCEPT !.waiters = Tail(@)]
     IN  IF call[t].kind = "try_acquire"
         THEN TryAcquireBody(t, call[t], tb, hist)
         ELSE AcquireBody(t, call[t], tb, collector, hist)
  /\ UNCHANGED now

\* mutant: the second _refill is left out
AcquireWake_no_refill(t) ==
  /\ UNCHANGED <<registry, worker, batch, scheduler,
                 data_versions>>
  /\ pc[t] = "acq_sleep"
  /\ now >= call[t].wake_at
  /\ AcquireReturns(t, call[t],
                    [token_bucket EXCEPT !.tokens = @ - call[t].n,
                                         !.locked_by = None],
                    collector, Granted(hist, token_bucket, call[t].n),
                    call[t].wait_time)
  /\ UNCHANGED now

\* the sleep of acquire is over (lines 63-67): refill, consume, return
AcquireWake(t) ==
  /\ UNCHANGED <<registry, worker, batch, scheduler,
                 data_versions>>
  /\ pc[t] = "acq_sleep"
  /\ now >= call[t].wake_at
  /\ LET tb1 == refill(token_bucket, now)
     IN  AcquireReturns(t, call[t],
                        [tb1 EXCEPT !.tokens = @ - call[t].n,
                                    !.locked_by = None],
                        collector, Granted(hist, token_bucket, call[t].n),
                        call[t].wait_time)
  /\ UNCHANGED now

\* a sequence without its element x
Without(q, x) == SelectSeq(q, LAMBDA y : y # x)

\* mutant: the lock is taken and released by hand, with no release on the
\* way out of a cancelled sleep
Cancel_keeps_lock(t) ==
  /\ UNCHANGED <<registry, worker, batch, scheduler,
                 data_versions>>
  /\ pc[t] \in {"acq_sleep", "lock_wait"}
  /\ call[t].kind \in {"acquire", "try_acquire"}
  /\ token_bucket' = [token_bucket EXCEPT !.waiters = Without(@, t)]
  /\ pc' = [pc EXCEPT ![t] = "idle"]
  /\ call' = [call EXCEPT ![t] = NoCall]
  /\ result' = Result(call[t], Raise(Cancelled), "none", 0)
  /\ UNCHANGED <<now, breaker, backoff, rate_limiter, collector, hist>>

\* the task of a waiting acquire / try_acquire is cancelled: CancelledError
\* is raised at its await.  In asyncio.sleep (line 61) it leaves the
\* `async with` block, which releases the lock; in the queue of the lock
\* (line 49 / 75) the waiter is dropped from the queue
Cancel(t) ==
  /\ UNCHANGED <<registry, worker, batch, scheduler,
                 data_versions>>
  /\ pc[t] \in {"acq_sleep", "lock_wait"}
  /\ call[t].kind \in {"acquire", "try_acquire"}
  /\ token_bucket' = IF pc[t] = "acq_sleep"
                     THEN [token_bucket EXCEPT !.locked_by = None]
                     ELSE [token_bucket EXCEPT !.waiters = Without(@, t)]
  /\ pc' = [pc EXCEPT ![t] = "idle"]
  /\ call' = [call EXCEPT ![t] = NoCall]
  /\ result' = Result(call[t], Raise(Cancelled), "none", 0)
  /\ UNCHANGED <<now, breaker, backoff, rate_limiter, collector, hist>>

\* ------------------------------- VnStockCollector._protected_api_call
\* lines 112-128: count the call, take a rate-limit token, check the breaker
ApiCall(t) ==
  /\ UNCHANGED <<registry, worker, batch, scheduler,
                 data_versions>>
  /\ pc[t] = "idle"
  /\ hist.calls < MaxCalls
  /\ LET c == [NoCall EXCEPT !.kind = "api", !.n = 1]
         h == [hist EXCEPT !.calls = @ + 1]
         col == [collector EXCEPT !.total_api_calls = @ + 1]
     IN  \/ lock_free(token_bucket)
            /\ AcquireBody(t, c, token_bucket, col, h)
         \/ EnterLock(t, c, col, h)
  /\ UNCHANGED now

\* the executor call ends: lines 130-134 on a return, lines 141-143 on an
\* Exception (on_failure sleeps the backoff delay before record_failure)
ApiEnd(t, out) ==
  /\ UNCHANGED <<registry, worker, batch, scheduler,
                 data_versions>>
  /\ pc[t] = "api_fn"
  /\ IF out \in Returns
     THEN LET b2 == record_success(breaker, now)
          IN  /\ collector' = [collector EXCEPT !.successful_calls = @ + 1]
              /\ backoff' = reset(backoff)
              /\ breaker' = b2
              /\ hist' = Moved(hist, breaker, b2, "success")
              /\ pc' = [pc EXCEPT ![t] = "idle"]
              /\ call' = [call EXCEPT ![t] = NoCall]
              /\ result' = Result(call[t], Return(out), out, 0)
              /\ UNCHANGED rate_limiter
     ELSE IF except_Exception(out)
     THEN \E d \in jittered(backoff) :
              /\ collector' = [collector EXCEPT !.failed_calls = @ + 1]
              /\ rate_limiter' = [rate_limiter EXCEPT
                                    !.total_failures = @ + 1]
              /\ backoff' = next_delay(backoff)
              /\ pc' = [pc EXCEPT ![t] = "api_backoff"]
              /\ call' = [call EXCEPT ![t].fnout = out,
                                      ![t].wake_at = now + d]
              /\ UNCHANGED <<breaker, hist, result>>
     ELSE /\ pc' = [pc EXCEPT ![t] = "idle"]
          /\ call' = [call EXCEPT ![t] = NoCall]
          /\ result' = Result(call[t], Raise(out), out, 0)
          /\ UNCHANGED <<breaker, backoff, rate_limiter, collector, hist>>
  /\ UNCHANGED <<now, token_bucket>>

\* the backoff sleep is over (lines 144-146): record the failure, re-raise
ApiBackoffEnd(t) ==
  /\ UNCHANGED <<registry, worker, batch, scheduler,
                 data_versions>>
  /\ pc[t] = "api_backoff"
  /\ now >= call[t].wake_at
  /\ LET b2 == record_failure(breaker, now)
     IN  /\ breaker' = b2
         /\ hist' = Moved(hist, breaker, b2, "failure")
  /\ pc' = [pc EXCEPT ![t] = "idle"]
  /\ call' = [call EXCEPT ![t] = NoCall]
  /\ result' = Result(call[t], Raise(call[t].fnout), call[t].fnout, 0)
  /\ UNCHANGED <<now, token_bucket, backoff, rate_limiter, collector>>

\* ----------------------------------------------------------- DataWorker
\* the worker's clock ticks every 30 seconds: the loop's sleep between two
\* checks is one tick, its wait after an error two
CheckEvery == 1
ErrorWait == 2

\* the updates in the order run_update_cycle checks them
Batches == <<"vn30", "top100", "listings", "screener">>

\* a DataWorker that has run nothing yet, with its four intervals; `at` is
\* where its asyncio task is suspended ("no_task": start_worker was never
\* called, "stopped": the task is done), in_batch the update it is in,
\* wake_at the end of its sleep, must_cancel the task's pending cancel(),
\* orphans the tasks running start() that _worker_task no longer names
DataWorker(vn30, top100, all_stocks, screener) ==
  [running |-> FALSE, current_task |-> "None",
   last_vn30_update |-> None, last_top100_update |-> None,
   last_all_update |-> None, last_screener_update |-> None,
   vn30_interval |-> vn30, top100_interval |-> top100,
   all_stocks_interval |-> all_stocks, screener_interval |-> screener,
   at |-> "no_task", in_batch |-> "none", wake_at |-> 0,
   must_cancel |-> FALSE, orphans |-> 0]

\* what each update writes to current_task on entry
current_task_of(b) ==
  IF b = "vn30" THEN "VN30 Update"
  ELSE IF b = "top100" THEN "Top 100 Update"
  ELSE IF b = "listings" THEN "Listings Update"
  ELSE "Screener Update"

\* mutant: the screener is checked before the listings
run_update_cycle_screener_first(w, t) ==
  IF w.last_vn30_update = None
       \/ t - w.last_vn30_update >= w.vn30_interval
  THEN "vn30"
  ELSE IF w.last_top100_update = None
            \/ t - w.last_top100_update >= w.top100_interval
  THEN "top100"
  ELSE IF w.last_screener_update = None
            \/ t - w.last_screener_update >= w.screener_interval
  THEN "screener"
  ELSE IF w.last_all_update = None
            \/ t - w.last_all_update >= w.all_stocks_interval
  THEN "listings"
  ELSE "none"

\* run_update_cycle at time t (lines 157-192): the update it enters, or
\* "none"
run_update_cycle(w, t) ==
  IF w.last_vn30_update = None
       \/ t - w.last_vn30_update >= w.vn30_interval
  THEN "vn30"
  ELSE IF w.last_top100_update = None
            \/ t - w.last_top100_update >= w.top100_interval
  THEN "top100"
  ELSE IF w.last_all_update = None
            \/ t - w.last_all_update >= w.all_stocks_interval
  THEN "listings"
  ELSE IF w.last_screener_update = None
            \/ t - w.last_screener_update >= w.screener_interval
  THEN "screener"
  ELSE "none"

\* the loop of start() from its `while self.running` test to its next
\* await (lines 232-238): into an update, or past run_update_cycle into
\* the sleep, or out of the loop
loop_iteration(w, t) ==
  IF ~w.running THEN [w EXCEPT !.at = "stopped"]
  ELSE LET b == run_update_cycle(w, t)
       IN  IF b = "none"
           THEN [w EXCEPT !.current_task = "None", !.at = "sleep",
                          !.wake_at = t + CheckEvery]
           ELSE [w EXCEPT !.current_task = current_task_of(b),
                          !.at = "batch", !.in_batch = b]

\* how an update can end: it returns, or an Exception leaves it before it
\* stamps its last_*_update ("raise"), or after ("raise_late":
\* update_all_listings takes len(listings) of a None after line 151);
\* update_screener catches every Exception itself
batch_outcomes(b) ==
  IF b = "screener" THEN {"return"}
  ELSE IF b = "listings" THEN {"return", "raise", "raise_late"}
  ELSE {"return", "raise"}

\* mutant: start() has no `except Exception`, an Exception ends the task
batch_end_uncaught(w, b, out, t) ==
  LET stamped ==
        IF out = "raise" THEN w
        ELSE IF b = "vn30" THEN [w EXCEPT !.last_vn30_update = t]
        ELSE IF b = "top100" THEN [w EXCEPT !.last_top100_update = t]
        ELSE IF b = "listings" THEN [w EXCEPT !.last_all_update = t]
        ELSE [w EXCEPT !.last_screener_update = t]
  IN  IF out = "return"
      THEN [stamped EXCEPT !.at = "sleep", !.in_batch = "none",
                           !.wake_at = t + CheckEvery]
      ELSE [stamped EXCEPT !.at = "stopped", !.in_batch = "none"]

\* the worker after its update b ended with out at time t, up to the
\* next await of start(): the sleep of line 238 or that of line 245
batch_end(w, b, out, t) ==
  LET stamped ==
        IF out = "raise" THEN w
        ELSE IF b = "vn30" THEN [w EXCEPT !.last_vn30_update = t]
        ELSE IF b = "top100" THEN [w EXCEPT !.last_top100_update = t]
        ELSE IF b = "listings" THEN [w EXCEPT !.last_all_update = t]
        ELSE [w EXCEPT !.last_screener_update = t]
  IN  IF out = "return"
      THEN [stamped EXCEPT !.at = "sleep", !.in_batch = "none",
                           !.wake_at = t + CheckEvery]
      ELSE [stamped EXCEPT !.at = "error_sleep", !.in_batch = "none",
                           !.wake_at = t + ErrorWait]

\* _worker_task is not None and not _worker_task.done() (line 291)
TaskLive(w) == w.at \notin {"no_task", "stopped"}

\* lines 295-296: _worker_task names a new task of _worker.start(); a task
\* it named before that is not done keeps running unreferenced
create_task(w) ==
  [w EXCEPT !.at = "created", !.must_cancel = FALSE,
            !.orphans = @ + (IF TaskLive(w) THEN 1 ELSE 0)]

\* mutant: start_worker without the check of line 291
start_worker_no_check(w) == create_task(w)

\* start_worker (lines 287-297): returns when the task is still running,
\* else creates one.  get_worker has no await inside, so nothing runs
\* between the check and create_task
start_worker(w) == IF TaskLive(w) THEN w ELSE create_task(w)

\* mutant: stop_worker only calls stop(), the task is not cancelled
stop_worker_no_cancel(w) ==
  IF w.at = "no_task" THEN w
  ELSE [w EXCEPT !.running = FALSE, !.current_task = "None"]

\* stop_worker (lines 300-314) up to its await: stop() clears running and
\* current_task, cancel() is pending on a task that is not done
stop_worker(w) ==
  IF w.at = "no_task" THEN w
  ELSE [w EXCEPT !.running = FALSE, !.current_task = "None",
                 !.must_cancel = (w.at # "stopped")]

\* ------------------------------------------ collect_batch_price_history
NoBatch == [state |-> "none", i |-> 0, attempted |-> {}]

\* collect_batch_price_history, lines 673-678: the head of its loop over
\* the symbols. The batch ends when the list is exhausted, or with `break`
\* when the breaker is open; otherwise the next symbol is fetched
batch_loop(bt, b) ==
  IF bt.i = NumSymbols \/ is_open(b)
  THEN [bt EXCEPT !.state = "done"]
  ELSE [state |-> "item", i |-> bt.i + 1,
        attempted |-> bt.attempted \cup {bt.i + 1}]

\* -------------------------------------------------------- UpdateScheduler
\* two of the four default tasks (lines 100-118)
TaskNames == {"daily_screener", "daily_prices"}

\* the tasks' max_runtime_minutes (lines 107, 117), in ticks of 30 minutes
max_runtime_minutes(name) == IF name = "daily_screener" THEN 1 ELSE 4

\* the UpdateTask dataclass (lines 38-53)
UpdateTask(name, enabled) ==
  [enabled |-> enabled, max_runtime_minutes |-> max_runtime_minutes(name),
   last_run |-> None, last_status |-> "None",
   run_count |-> 0, success_count |-> 0, failure_count |-> 0]

\* the frame of an execute_task coroutine: where it is suspended ("start":
\* in _get_db, _get_collector or log_update_start; "handler": in the
\* _update_* of its update type; "log_completed" / "log_failed": in
\* log_update_complete), its task and the time it was entered
NoFrame == [at |-> "idle", task |-> "none", entered |-> 0]

\* UpdateScheduler.__init__ (lines 69-83) with the tasks of `enabled`
\* enabled in the configuration
UpdateScheduler(enabled) ==
  [current_task |-> "None",
   tasks |-> [n \in TaskNames |-> UpdateTask(n, n \in enabled)],
   frames |-> [t \in Tasks |-> NoFrame]]

\* the global _scheduler (line 387) before get_scheduler has built one
NoScheduler == None

\* -------------------------------------------------------- data_versions
\* no price row for any symbol
NoVersions == [s \in Symbols |-> None]

\* STALENESS_THRESHOLDS[DataType.PRICE] (line 68), in ticks of one day
STALENESS_THRESHOLDS_PRICE == 1

\* _record_versions(symbols, 'price') (lines 372-383): INSERT OR REPLACE of
\* a row stamped now for each symbol
record_versions(dv, symbols, t) ==
  [s \in Symbols |-> IF s \in symbols THEN t ELSE dv[s]]

\* the lists a set can be turned into by list(set(...)) (line 168)
ListsOf(S) ==
  {q \in [1..Cardinality(S) -> S] : {q[i] : i \in 1..Cardinality(S)} = S}

\* mutant: only the stale rows are collected, the LEFT JOIN query for the
\* symbols without a row is left out
analyze_price_gaps_stale_only(dv, is_active, t) ==
  LET cutoff == t - STALENESS_THRESHOLDS_PRICE
      stale == {s \in Symbols : dv[s] # None /\ dv[s] < cutoff}
      missing == {}
      oldest == CHOOSE d \in {dv[s] : s \in stale} :
                   \A s \in stale : d <= dv[s]
  IN  [symbols_to_update |-> stale \cup missing,
       gap_days |-> IF stale # {} THEN t - oldest ELSE 0,
       priority |-> IF missing # {} THEN 1 ELSE 2]

\* _analyze_price_gaps (lines 134-184): the rows older than the cutoff,
\* and the active stocks without a price row
analyze_price_gaps(dv, is_active, t) ==
  LET cutoff == t - STALENESS_THRESHOLDS_PRICE
      stale == {s \in Symbols : dv[s] # None /\ dv[s] < cutoff}
      missing == {s \in Symbols : dv[s] = None /\ is_active[s]}
      oldest == CHOOSE d \in {dv[s] : s \in stale} :
                   \A s \in stale : d <= dv[s]
  IN  [symbols_to_update |-> stale \cup missing,
       gap_days |-> IF stale # {} THEN t - oldest ELSE 0,
       priority |-> IF missing # {} THEN 1 ELSE 2]

\* ------------------------------------------------------- specifications
InitWith(b, tb) ==
  /\ now = 1
  /\ pc = [t \in Tasks |-> "idle"]
  /\ call = [t \in Tasks |-> NoCall]
  /\ breaker = b
  /\ token_bucket = tb
  /\ backoff = ExponentialBackoff(1, BackoffMax, 2)
  /\ rate_limiter = RateLimiter
  /\ collector = VnStockCollector
  /\ result = NoResult
  /\ hist = NoHist
  /\ registry = DataUpdateRegistry({})
  /\ worker = DataWorker(1, 1, 1, 1)
  /\ batch = NoBatch
  /\ scheduler = NoScheduler
  /\ data_versions = NoVersions

\* a breaker of any small configuration, driven through execute and by hand
Init ==
  \E th \in 1..MaxThreshold, rt \in 1..MaxTimeout :
     InitWith(CircuitBreaker(th, rt), TokenBucket(1, 1, 1))

Next ==
  \/ \E t \in Tasks : Execute(t)
  \/ \E t \in Tasks, out \in Outcomes : ExecuteEnd(t, out)
  \/ ForceClose
  \/ ForceOpen
  \/ Tick

Spec == Init /\ [][Next]_vars

\* the breaker as the backend runs it: driven by the collector's protected
\* calls, reset by hand through the API (main.py reset_circuit_breaker)
NextCollector ==
  \/ \E t \in Tasks : ApiCall(t)
  \/ \E t \in Tasks : LockGranted(t)
  \/ \E t \in Tasks : AcquireWake(t)
  \/ \E t \in Tasks, out \in Outcomes : ApiEnd(t, out)
  \/ \E t \in Tasks : ApiBackoffEnd(t)
  \/ ForceClose
  \/ Tick

SpecCollector == Init /\ [][NextCollector]_vars

\* the same breaker shared by execute callers and the collector; fn returns
\* or raises an Exception (a cancelled caller is left to Spec and
\* SpecCollector)
NextShared ==
  \/ \E t \in Tasks : Execute(t)
  \/ \E t \in Tasks, out \in Returns \cup Raises : ExecuteEnd(t, out)
  \/ \E t \in Tasks : ApiCall(t)
  \/ \E t \in Tasks : LockGranted(t)
  \/ \E t \in Tasks : AcquireWake(t)
  \/ \E t \in Tasks, out \in Returns \cup Raises : ApiEnd(t, out)
  \/ \E t \in Tasks : ApiBackoffEnd(t)
  \/ ForceClose
  \/ Tick

\* the one global breaker of get_circuit_breaker, shared by the collector and
\* by execute callers: any small failure_threshold, the longest
\* recovery_timeout
InitShared ==
  \E th \in 1..MaxThreshold :
     InitWith(CircuitBreaker(th, MaxTimeout), TokenBucket(1, 1, 1))

SpecShared == InitShared /\ [][NextShared]_vars

\* one TokenBucket of any small configuration, called directly
InitBucket ==
  \E cap \in 1..MaxCapacity, rate \in 1..MaxRate :
     InitWith(CircuitBreaker(1, 1), TokenBucket(cap, rate, 1))

NextBucket ==
  \/ \E t \in Tasks, n \in 1..MaxRequest : Acquire(t, n)
  \/ \E t \in Tasks, n \in 1..MaxRequest : TryAcquire(t, n)
  \/ \E t \in Tasks : LockGranted(t)
  \/ \E t \in Tasks : AcquireWake(t)
  \/ Tick

SpecBucket == InitBucket /\ [][NextBucket]_vars

\* a TokenBucket built with its tokens and last_refill fields given, as the
\* dataclass constructor allows: last_refill taken from another clock can
\* lie ahead of time.monotonic()
InitSkew ==
  \E cap \in 1..MaxCapacity, rate \in 1..MaxRate, tok \in 0..MaxCapacity,
     lr \in 1..MaxTime :
     /\ tok <= cap
     /\ InitWith(CircuitBreaker(1, 1),
                 [TokenBucket(cap, rate, lr) EXCEPT !.tokens = tok])

SpecSkew == InitSkew /\ [][NextBucket]_vars

\* asyncio.sleep always ends: the clock runs on for as long as a task sleeps
Elapse ==
  /\ UNCHANGED <<registry, worker, batch, scheduler,
                 data_versions>>
  /\ now >= MaxTime
  /\ \E t \in Tasks : pc[t] = "acq_sleep" /\ call[t].wake_at > now
  /\ now' = now + 1
  /\ UNCHANGED <<pc, call, breaker, token_bucket, backoff, rate_limiter,
                 collector, result, hist>>

\* callers of acquire on one bucket under the event loop's scheduling: time
\* passes, a timer that is due fires, a released lock wakes the head of its
\* queue
NextBucketLive ==
  \/ \E t \in Tasks, n \in 1..MaxRequest : Acquire(t, n)
  \/ \E t \in Tasks : LockGranted(t)
  \/ \E t \in Tasks : AcquireWake(t)
  \/ Tick
  \/ Elapse

SpecBucketLive ==
  /\ InitBucket
  /\ [][NextBucketLive]_vars
  /\ WF_vars(Tick \/ Elapse)
  /\ \A t \in Tasks : WF_vars(LockGranted(t))
  /\ \A t \in Tasks : WF_vars(AcquireWake(t))

\* callers of acquire that may be cancelled while they wait
NextBucketCancel ==
  \/ \E t \in Tasks, n \in 1..MaxRequest : Acquire(t, n)
  \/ \E t \in Tasks : LockGranted(t)
  \/ \E t \in Tasks : AcquireWake(t)
  \/ \E t \in Tasks : Cancel(t)
  \/ Tick

SpecBucketCancel == InitBucket /\ [][NextBucketCancel]_vars

\* one ExponentialBackoff of any small configuration, called directly
InitBackoff ==
  \E base \in 1..MaxBaseDelay, maxd \in 1..MaxMaxDelay,
     mult \in 1..MaxMultiplier :
     /\ base <= maxd
     /\ now = 1
     /\ pc = [t \in Tasks |-> "idle"]
     /\ call = [t \in Tasks |-> NoCall]
     /\ breaker = CircuitBreaker(1, 1)
     /\ token_bucket = TokenBucket(1, 1, 1)
     /\ backoff = ExponentialBackoff(base, maxd, mult)
     /\ rate_limiter = RateLimiter
     /\ collector = VnStockCollector
     /\ result = NoResult
     /\ hist = NoHist
     /\ registry = DataUpdateRegistry({})
     /\ worker = DataWorker(1, 1, 1, 1)
     /\ batch = NoBatch
     /\ scheduler = NoScheduler
     /\ data_versions = NoVersions

\* ExponentialBackoff.next_delay(): returns the jittered delay
NextDelay ==
  /\ UNCHANGED <<registry, worker, batch, scheduler,
                 data_versions>>
  /\ hist.calls < MaxCalls
  /\ \E d \in jittered(backoff) :
        result' = Result([NoCall EXCEPT !.kind = "next_delay"],
                         Return("delay"), "none", d)
  /\ backoff' = next_delay(backoff)
  /\ hist' = [hist EXCEPT !.calls = @ + 1]
  /\ UNCHANGED <<now, pc, call, breaker, token_bucket, rate_limiter,
                 collector>>

\* ExponentialBackoff.reset()
Reset ==
  /\ UNCHANGED <<registry, worker, batch, scheduler,
                 data_versions>>
  /\ hist.calls < MaxCalls
  /\ backoff' = reset(backoff)
  /\ result' = Result([NoCall EXCEPT !.kind = "reset"], Return("None"),
                      "none", 0)
  /\ hist' = [hist EXCEPT !.calls = @ + 1]
  /\ UNCHANGED <<now, pc, call, breaker, token_bucket, rate_limiter,
                 collector>>

NextBackoff ==
  \/ NextDelay
  \/ Reset

SpecBackoff == InitBackoff /\ [][NextBackoff]_vars

\* --------------------------------------------- DataUpdateRegistry calls
\* mark_symbol_updated(symbol, data_type, status)
MarkSymbolUpdated(symbol, data_type, status) ==
  /\ hist.calls < MaxCalls
  /\ registry' = mark_symbol_updated(registry, symbol, data_type, status,
                                     now)
  /\ result' = Result([NoCall EXCEPT !.kind = "mark",
                                     !.data_type = data_type],
                      Return("None"), "none", 0)
  /\ hist' = [hist EXCEPT
                !.calls = @ + 1,
                !.marked = [symbol |-> symbol, data_type |-> data_type,
                            status |-> status, at |-> now],
                !.failed_marks[symbol][data_type]
                   = IF status = "failed" THEN @ + 1 ELSE 0]
  /\ UNCHANGED <<now, pc, call, breaker, token_bucket, backoff,
                 rate_limiter, collector, worker, batch, scheduler,
                 data_versions>>

\* get_symbols_needing_update(data_type, limit): a query, it changes no
\* table
GetSymbolsNeedingUpdate(data_type, limit) ==
  /\ hist.calls < MaxCalls
  /\ \E rows \in get_symbols_needing_update(registry, data_type, limit,
                                              now) :
        result' = [Result([NoCall EXCEPT !.kind = "get_due", !.n = limit,
                                         !.data_type = data_type],
                          Return("rows"), "none", 0)
                     EXCEPT !.items = rows]
  /\ hist' = [hist EXCEPT !.calls = @ + 1]
  /\ UNCHANGED <<now, pc, call, breaker, token_bucket, backoff,
                 rate_limiter, collector, registry, worker, batch, scheduler,
                 data_versions>>

\* a registry over a stocks table whose last symbol may be inactive
InitRegistry ==
  \E inactive \in {{}, {NumSymbols}} :
     /\ now = 1
     /\ pc = [t \in Tasks |-> "idle"]
     /\ call = [t \in Tasks |-> NoCall]
     /\ breaker = CircuitBreaker(1, 1)
     /\ token_bucket = TokenBucket(1, 1, 1)
     /\ backoff = ExponentialBackoff(1, BackoffMax, 2)
     /\ rate_limiter = RateLimiter
     /\ collector = VnStockCollector
     /\ result = NoResult
     /\ hist = NoHist
     /\ registry = DataUpdateRegistry(inactive)
     /\ worker = DataWorker(1, 1, 1, 1)
     /\ batch = NoBatch
     /\ scheduler = NoScheduler
     /\ data_versions = NoVersions

NextRegistry ==
  \/ \E s \in Symbols, k \in DataType, st \in {"success", "failed"} :
        MarkSymbolUpdated(s, k, st)
  \/ \E k \in DataType, limit \in 1..NumSymbols :
        GetSymbolsNeedingUpdate(k, limit)
  \/ Tick

SpecRegistry == InitRegistry /\ [][NextRegistry]_vars

\* clear_failed_status(symbol), the clear_failed_updates endpoint of main.py
ClearFailedStatus(symbol) ==
  /\ hist.calls < MaxCalls
  /\ registry' = clear_failed_status(registry, symbol)
  /\ result' = Result([NoCall EXCEPT !.kind = "clear_failed"],
                      Return("None"), "none", 0)
  /\ hist' = [hist EXCEPT !.calls = @ + 1]
  /\ UNCHANGED <<now, pc, call, breaker, token_bucket, backoff,
                 rate_limiter, collector, worker, batch, scheduler,
                 data_versions>>

\* the registry with its failed rows cleared by hand
NextClear ==
  \/ \E s \in Symbols, k \in DataType, st \in {"success", "failed"} :
        MarkSymbolUpdated(s, k, st)
  \/ \E s \in Symbols \cup {None} : ClearFailedStatus(s)
  \/ \E k \in DataType, limit \in 1..NumSymbols :
        GetSymbolsNeedingUpdate(k, limit)
  \/ Tick

SpecClear == InitRegistry /\ [][NextClear]_vars

\* get_update_summary(): a query; result keeps the summary
GetUpdateSummary ==
  /\ hist.calls < MaxCalls
  /\ result' = [Result([NoCall EXCEPT !.kind = "get_summary"],
                       Return("summary"), "none", 0)
                  EXCEPT !.items = get_update_summary(registry, now)]
  /\ hist' = [hist EXCEPT !.calls = @ + 1]
  /\ UNCHANGED <<now, pc, call, breaker, token_bucket, backoff,
                 rate_limiter, collector, registry, worker, batch,
                 scheduler, data_versions>>

\* marks for any symbol (force_update_symbol takes the symbol from the
\* URL), and the summary
NextSummary ==
  \/ \E s \in Symbols, k \in DataType, st \in {"success", "failed"} :
        MarkSymbolUpdated(s, k, st)
  \/ GetUpdateSummary
  \/ Tick

SpecSummary == InitRegistry /\ [][NextSummary]_vars

\* the data types in the order `for data_type in DataType` visits them
DataTypes == <<PRICE, HISTORY>>

\* queue.sort(key=priority): a stable sort, entries of equal priority keep
\* the order they were appended in
RECURSIVE sort_by_priority(_, _)
sort_by_priority(queue, p) ==
  IF p > 5 THEN <<>>
  ELSE SelectSeq(queue, LAMBDA x : x.priority = p)
         \o sort_by_priority(queue, p + 1)

\* the entries get_priority_update_queue appends for one data type
queue_entries(symbols, data_type) ==
  [i \in 1..Len(symbols) |->
     [symbol |-> symbols[i], data_type |-> data_type,
      priority |-> DEFAULT_UPDATE_CONFIGS[data_type].priority]]

\* the lists get_priority_update_queue can return at time t: each data
\* type is asked for max_symbols // len(DataType) symbols
get_priority_update_queue(reg, max_symbols, t) ==
  LET limit == max_symbols \div Len(DataTypes)
      due(k) == get_symbols_needing_update(reg, k, limit, t)
  IN  {SubSeq(sort_by_priority(queue_entries(a, DataTypes[1])
                                 \o queue_entries(b, DataTypes[2]), 1),
              1, Min(max_symbols, Len(a) + Len(b))) :
         a \in due(DataTypes[1]), b \in due(DataTypes[2])}

GetPriorityUpdateQueue(max_symbols) ==
  /\ hist.calls < MaxCalls
  /\ \E queue \in get_priority_update_queue(registry, max_symbols, now) :
        result' = [Result([NoCall EXCEPT !.kind = "get_queue",
                                         !.n = max_symbols],
                          Return("queue"), "none", 0)
                     EXCEPT !.items = queue]
  /\ hist' = [hist EXCEPT !.calls = @ + 1]
  /\ UNCHANGED <<now, pc, call, breaker, token_bucket, backoff,
                 rate_limiter, collector, registry, worker, batch, scheduler,
                 data_versions>>

NextQueue ==
  \/ \E s \in Symbols, k \in DataType, st \in {"success", "failed"} :
        MarkSymbolUpdated(s, k, st)
  \/ \E max_symbols \in 1..(NumSymbols * Len(DataTypes)) :
        GetPriorityUpdateQueue(max_symbols)
  \/ Tick

SpecQueue == InitRegistry /\ [][NextQueue]_vars

\* ---------------------------------------------------- the worker's task
\* start_worker (lines 287-297): a new task unless one is still running
StartWorker ==
  /\ worker' = start_worker(worker)
  /\ UNCHANGED <<now, pc, call, breaker, token_bucket, backoff,
                 rate_limiter, collector, result, hist, registry, batch,
                 scheduler, data_versions>>

\* the task's first step (lines 227-228): up to the await of initialize()
WorkerStart ==
  /\ worker.at = "created"
  /\ ~worker.must_cancel
  /\ worker' = [worker EXCEPT !.running = TRUE, !.at = "initialize"]
  /\ UNCHANGED <<now, pc, call, breaker, token_bucket, backoff,
                 rate_limiter, collector, result, hist, registry, batch, scheduler,
                 data_versions>>

\* initialize() ends: into the loop, or its exception ends the task
InitializeEnd(out) ==
  /\ worker.at = "initialize"
  /\ ~worker.must_cancel
  /\ worker' = IF out = "return" THEN loop_iteration(worker, now)
               ELSE [worker EXCEPT !.at = "stopped"]
  /\ UNCHANGED <<now, pc, call, breaker, token_bucket, backoff,
                 rate_limiter, collector, result, hist, registry, batch, scheduler,
                 data_versions>>

\* the update the worker is in ends; result keeps how run_update_cycle
\* ended
BatchEnd(out) ==
  /\ worker.at = "batch"
  /\ ~worker.must_cancel
  /\ out \in batch_outcomes(worker.in_batch)
  /\ worker' = batch_end(worker, worker.in_batch, out, now)
  /\ result' = Result([NoCall EXCEPT !.kind = "run_update_cycle"],
                      IF out = "return" THEN Return("None")
                      ELSE Raise("Exception"),
                      out, 0)
  /\ UNCHANGED <<now, pc, call, breaker, token_bucket, backoff,
                 rate_limiter, collector, hist, registry, batch, scheduler,
                 data_versions>>

\* a sleep of the loop is over (line 238 or 245): the next iteration
WorkerWake ==
  /\ worker.at \in {"sleep", "error_sleep"}
  /\ ~worker.must_cancel
  /\ now >= worker.wake_at
  /\ worker' = loop_iteration(worker, now)
  /\ UNCHANGED <<now, pc, call, breaker, token_bucket, backoff,
                 rate_limiter, collector, result, hist, registry, batch, scheduler,
                 data_versions>>

StopWorker ==
  /\ worker' = stop_worker(worker)
  /\ UNCHANGED <<now, pc, call, breaker, token_bucket, backoff,
                 rate_limiter, collector, result, hist, registry, batch, scheduler,
                 data_versions>>

\* the task's next step after cancel(): CancelledError is thrown at its
\* await.  It is no Exception, so no handler of the updates takes it; in
\* the loop's try it reaches `except asyncio.CancelledError: break`,
\* elsewhere it leaves start(): the task is done either way
WorkerCancelled ==
  /\ worker.must_cancel
  /\ worker' = [worker EXCEPT !.at = "stopped", !.in_batch = "none",
                              !.must_cancel = FALSE]
  /\ UNCHANGED <<now, pc, call, breaker, token_bucket, backoff,
                 rate_limiter, collector, result, hist, registry, batch, scheduler,
                 data_versions>>

\* a fresh worker with any small intervals
InitWorker ==
  \E vn30, top100, all_stocks, screener \in 1..MaxInterval :
     /\ now = 1
     /\ pc = [t \in Tasks |-> "idle"]
     /\ call = [t \in Tasks |-> NoCall]
     /\ breaker = CircuitBreaker(1, 1)
     /\ token_bucket = TokenBucket(1, 1, 1)
     /\ backoff = ExponentialBackoff(1, BackoffMax, 2)
     /\ rate_limiter = RateLimiter
     /\ collector = VnStockCollector
     /\ result = NoResult
     /\ hist = NoHist
     /\ registry = DataUpdateRegistry({})
     /\ worker = DataWorker(vn30, top100, all_stocks, screener)
     /\ batch = NoBatch
     /\ scheduler = NoScheduler
     /\ data_versions = NoVersions

NextWorker ==
  \/ StartWorker
  \/ WorkerStart
  \/ \E out \in {"return", "raise"} : InitializeEnd(out)
  \/ \E out \in {"return", "raise", "raise_late"} : BatchEnd(out)
  \/ WorkerWake
  \/ StopWorker
  \/ WorkerCancelled
  \/ Tick

SpecWorker == InitWorker /\ [][NextWorker]_vars

\* the event loop runs a task whose cancellation is pending
SpecWorkerLive == SpecWorker /\ WF_vars(WorkerCancelled)

\* start_worker with its log line observed: result keeps which of the two
\* (line 292 or line 297) the call reached
StartWorkerLogged ==
  /\ worker' = start_worker(worker)
  /\ result' = Result([NoCall EXCEPT !.kind = "start_worker"],
                      Return(IF TaskLive(worker) THEN "already running"
                             ELSE "started"),
                      "none", 0)
  /\ UNCHANGED <<now, pc, call, breaker, token_bucket, backoff,
                 rate_limiter, collector, hist, registry, batch,
                 scheduler, data_versions>>

\* the worker's task under any interleaving of start_worker and
\* stop_worker calls
NextStartStop ==
  \/ StartWorkerLogged
  \/ WorkerStart
  \/ \E out \in {"return", "raise"} : InitializeEnd(out)
  \/ \E out \in {"return", "raise", "raise_late"} : BatchEnd(out)
  \/ WorkerWake
  \/ StopWorker
  \/ WorkerCancelled
  \/ Tick

SpecStartStop == InitWorker /\ [][NextStartStop]_vars

\* --------------------------- VnStockCollector.collect_batch_price_history
\* the batch is run by task 1, the only caller of the collector here
CollectBatchPriceHistory ==
  /\ batch.state = "none"
  /\ pc[1] = "idle"
  /\ batch' = batch_loop(NoBatch, breaker)
  /\ result' = NoResult
  /\ UNCHANGED <<now, pc, call, breaker, token_bucket, backoff, rate_limiter,
                 collector, hist, registry, worker, scheduler,
                 data_versions>>

\* collect_price_history (line 678) makes its protected call (line 317)
BatchFetch ==
  /\ batch.state = "item"
  /\ result.kind = "none"
  /\ ApiCall(1)

\* collect_price_history returns the rows, or [] for CircuitOpenError and
\* for any Exception (lines 345-349); the loop goes round
BatchItemEnd ==
  /\ batch.state = "item"
  /\ pc[1] = "idle"
  /\ result.kind # "none"
  /\ batch' = batch_loop(batch, breaker)
  /\ result' = NoResult
  /\ UNCHANGED <<now, pc, call, breaker, token_bucket, backoff, rate_limiter,
                 collector, hist, registry, worker, scheduler,
                 data_versions>>

NextBatch ==
  \/ CollectBatchPriceHistory
  \/ BatchFetch
  \/ AcquireWake(1)
  \/ \E out \in Returns \cup Raises : ApiEnd(1, out)
  \/ ApiBackoffEnd(1)
  \/ BatchItemEnd
  \/ Tick

SpecBatch == Init /\ [][NextBatch]_vars

\* ------------------------------------------- UpdateScheduler.execute_task
\* execute_task(tasks[name]) called by t, up to its first await (lines
\* 173-182): a disabled task returns False; an enabled one is counted as
\* run and stamped
ExecuteTask(t, name) ==
  /\ scheduler.frames[t].at = "idle"
  /\ hist.calls < MaxCalls
  /\ hist' = [hist EXCEPT !.calls = @ + 1]
  /\ IF ~scheduler.tasks[name].enabled
     THEN /\ result' = Result([NoCall EXCEPT !.kind = "execute_task"],
                              Return("False"), "none", 0)
          /\ UNCHANGED scheduler
     ELSE /\ scheduler' =
               [scheduler EXCEPT
                  !.current_task = name,
                  !.tasks[name].run_count = @ + 1,
                  !.tasks[name].last_run = now,
                  !.frames[t] = [at |-> "start", task |-> name,
                                 entered |-> now]]
          /\ UNCHANGED result
  /\ UNCHANGED <<now, pc, call, breaker, token_bucket, backoff, rate_limiter,
                 collector, registry, worker, batch, data_versions>>

\* _get_db, _get_collector and log_update_start (lines 182-185) are over:
\* into the handler, or their Exception leaves execute_task, which has not
\* entered its try yet
TaskStartEnd(t, out) ==
  /\ scheduler.frames[t].at = "start"
  /\ IF out = "return"
     THEN /\ scheduler' = [scheduler EXCEPT !.frames[t].at = "handler"]
          /\ UNCHANGED result
     ELSE /\ scheduler' = [scheduler EXCEPT !.frames[t] = NoFrame]
          /\ result' = Result([NoCall EXCEPT !.kind = "execute_task"],
                              Raise("Exception"), "none", 0)
  /\ UNCHANGED <<now, pc, call, breaker, token_bucket, backoff, rate_limiter,
                 collector, hist, registry, worker, batch, data_versions>>

\* the _update_* handler of the task ends (lines 190-205 and 213-216): it
\* is counted as a success or as a failure, and log_update_complete is
\* awaited
HandlerEnd(t, out) ==
  /\ scheduler.frames[t].at = "handler"
  /\ LET name == scheduler.frames[t].task
     IN  scheduler' =
           IF out = "return"
           THEN [scheduler EXCEPT
                   !.tasks[name].success_count = @ + 1,
                   !.tasks[name].last_status = "completed",
                   !.frames[t].at = "log_completed"]
           ELSE [scheduler EXCEPT
                   !.tasks[name].failure_count = @ + 1,
                   !.tasks[name].last_status = "failed",
                   !.frames[t].at = "log_failed"]
  /\ UNCHANGED <<now, pc, call, breaker, token_bucket, backoff, rate_limiter,
                 collector, result, hist, registry, worker, batch,
                 data_versions>>

\* log_update_complete ends.  After a success (line 205) its Exception is
\* caught by `except Exception` (line 213) like the handler's; in the
\* handler (line 216) it leaves execute_task.  `finally` clears
\* _current_task on every way out
LogUpdateCompleteEnd(t, out) ==
  /\ scheduler.frames[t].at \in {"log_completed", "log_failed"}
  /\ LET name == scheduler.frames[t].task
         done == [scheduler EXCEPT !.current_task = "None",
                                   !.frames[t] = NoFrame]
     IN  IF scheduler.frames[t].at = "log_completed"
         THEN IF out = "return"
              THEN /\ scheduler' = done
                   /\ result' = Result([NoCall EXCEPT
                                          !.kind = "execute_task"],
                                       Return("True"), "return", 0)
              ELSE /\ scheduler' =
                        [scheduler EXCEPT
                           !.tasks[name].failure_count = @ + 1,
                           !.tasks[name].last_status = "failed",
                           !.frames[t].at = "log_failed"]
                   /\ UNCHANGED result
         ELSE /\ scheduler' = done
              /\ result' = Result([NoCall EXCEPT !.kind = "execute_task"],
                                  IF out = "return" THEN Return("False")
                                  ELSE Raise("Exception"), "raise", 0)
  /\ UNCHANGED <<now, pc, call, breaker, token_bucket, backoff, rate_limiter,
                 collector, hist, registry, worker, batch, data_versions>>

\* a scheduler with any of its tasks disabled in its configuration
InitScheduler ==
  \E enabled \in SUBSET TaskNames :
     /\ now = 1
     /\ pc = [t \in Tasks |-> "idle"]
     /\ call = [t \in Tasks |-> NoCall]
     /\ breaker = CircuitBreaker(1, 1)
     /\ token_bucket = TokenBucket(1, 1, 1)
     /\ backoff = ExponentialBackoff(1, BackoffMax, 2)
     /\ rate_limiter = RateLimiter
     /\ collector = VnStockCollector
     /\ result = NoResult
     /\ hist = NoHist
     /\ registry = DataUpdateRegistry({})
     /\ worker = DataWorker(1, 1, 1, 1)
     /\ batch = NoBatch
     /\ scheduler = UpdateScheduler(enabled)
     /\ data_versions = NoVersions

NextScheduler ==
  \/ \E t \in Tasks, name \in TaskNames : ExecuteTask(t, name)
  \/ \E t \in Tasks, out \in {"return", "raise"} : TaskStartEnd(t, out)
  \/ \E t \in Tasks, out \in {"return", "raise"} : HandlerEnd(t, out)
  \/ \E t \in Tasks, out \in {"return", "raise"} : LogUpdateCompleteEnd(t, out)
  \/ Tick

SpecScheduler == InitScheduler /\ [][NextScheduler]_vars

\* ------------------------------------------------------------ SmartUpdater
\* _update_prices records a version for every symbol its source returned
\* (line 359)
RecordVersions(symbols) ==
  /\ hist.calls < MaxCalls
  /\ data_versions' = record_versions(data_versions, symbols, now)
  /\ result' = Result([NoCall EXCEPT !.kind = "record_versions"],
                      Return("None"), "none", 0)
  /\ hist' = [hist EXCEPT !.calls = @ + 1]
  /\ UNCHANGED <<now, pc, call, breaker, token_bucket, backoff,
                 rate_limiter, collector, registry, worker, batch,
                 scheduler>>

\* analyze_gaps (lines 106-132): the PRICE plan is in the returned gaps
\* when it names a symbol; result keeps it, with data_type PRICE when the
\* plan is in the gaps
AnalyzeGaps ==
  /\ hist.calls < MaxCalls
  /\ LET price_plan == analyze_price_gaps(data_versions,
                                          registry.is_active, now)
     IN  \E symbols \in ListsOf(price_plan.symbols_to_update) :
            result' =
              [Result([NoCall EXCEPT
                         !.kind = "analyze_gaps",
                         !.n = price_plan.priority,
                         !.data_type = IF symbols # <<>> THEN PRICE
                                       ELSE "none"],
                      Return("gaps"), "none", 0)
                 EXCEPT !.items = symbols]
  /\ hist' = [hist EXCEPT !.calls = @ + 1]
  /\ UNCHANGED <<now, pc, call, breaker, token_bucket, backoff,
                 rate_limiter, collector, registry, worker, batch,
                 scheduler, data_versions>>

NextGaps ==
  \/ \E symbols \in SUBSET Symbols \ {{}} : RecordVersions(symbols)
  \/ AnalyzeGaps
  \/ Tick

\* a stocks table whose last symbol may be inactive, no version recorded
SpecGaps == InitRegistry /\ [][NextGaps]_vars

\* ------------------------------------------------- steps, as seen in a
\* pair of states
CallStarted == hist'.calls = hist.calls + 1

\* an execute call was made in this step and let through to fn
ExecuteAdmitted == \E t \in Tasks : pc[t] = "idle" /\ pc'[t] = "exec_fn"

\* an execute call was made in this step and ended in it
ExecuteRejected ==
  breaker'.stats.rejected_calls = breaker.stats.rejected_calls + 1

\* _protected_api_call passed the rate limiter in this step and raised
\* CircuitOpenError
ApiRejected ==
  /\ rate_limiter'.total_requests = rate_limiter.total_requests + 1
  /\ collector'.failed_calls = collector.failed_calls + 1

\* the fn of an execute call ended in this step; of a probe, that is a
\* call admitted in HalfOpen
ExecuteEnded == \E t \in Tasks : pc[t] = "exec_fn" /\ pc'[t] = "idle"

ProbeEnded ==
  \E t \in Tasks : /\ pc[t] = "exec_fn" /\ pc'[t] = "idle"
                   /\ call[t].admitted_in = HALF_OPEN

SuccessRecorded ==
  breaker'.stats.successful_calls = breaker.stats.successful_calls + 1
FailureRecorded ==
  breaker'.stats.failed_calls = breaker.stats.failed_calls + 1

\* ------------------------------------------------------------------ C1
\* C1: while the breaker is Open and recovery_timeout has not elapsed since
\* it opened, every execute call raises CircuitOpenError and the wrapped
\* function is not invoked (the call-count spy does not move).
C1_OpenRejectsAll ==
  [][(/\ breaker.state = OPEN
      /\ now - hist.opened_at < breaker.recovery_timeout
      /\ (ExecuteAdmitted \/ ExecuteRejected))
     => (/\ ExecuteRejected
         /\ result'.ret = Raise(CircuitOpenError)
         /\ result'.fnout = "none"
         /\ hist'.fn_calls = hist.fn_calls)]_vars

C1_Witness ==
  /\ breaker.state = OPEN
  /\ now - hist.opened_at < breaker.recovery_timeout
  /\ breaker.failure_count >= breaker.failure_threshold
  /\ breaker.stats.rejected_calls > 0
  /\ result.kind = "execute"
  /\ result.ret = Raise(CircuitOpenError)

\* ------------------------------------------------------------------ C2
\* C2: counting from Closed with failure_count 0, the breaker opens on the
\* T-th consecutive recorded failure and not before: a Closed breaker has
\* seen fewer than T failures since the last success, and a failure
\* recorded while Closed opens the breaker exactly when it is the T-th in
\* a row (a success in between restarts the count).
C2_OpensAtThreshold ==
  /\ [](breaker.state = CLOSED => hist.streak < breaker.failure_threshold)
  /\ [][(breaker.state = CLOSED /\ FailureRecorded)
        => (breaker'.state = OPEN
              <=> hist'.streak >= breaker.failure_threshold)]_vars

C2_Witness ==
  /\ breaker.failure_threshold = 2
  /\ breaker.state = OPEN
  /\ hist.streak = 2
  /\ breaker.stats.successful_calls = 1
  /\ breaker.stats.failed_calls = 2
  /\ breaker.stats.state_changes = 1

\* ------------------------------------------------------------------ C3
\* C3: while the breaker is HalfOpen, at most max_half_open_probes execute
\* calls have reached the wrapped function since it entered HalfOpen.
C3_AtMostMaxProbes ==
  breaker.state = HALF_OPEN => hist.probes <= breaker.half_open_max_calls

\* ------------------------------------------------------------------ C4
\* C4: an execute call made while Open is rejected exactly when less than
\* recovery_timeout has passed since the breaker entered Open; outcomes
\* recorded after that moment do not postpone the first admission.
C4_TimerRunsFromOpening ==
  [][(breaker.state = OPEN /\ (ExecuteAdmitted \/ ExecuteRejected))
     => (ExecuteRejected
           <=> now - hist.opened_at < breaker.recovery_timeout)]_vars

\* ------------------------------------------------------------------ C5
\* C5: when the outcome of a probe (a call admitted in HalfOpen) is
\* recorded while the breaker is HalfOpen, a success leaves it Closed with
\* failure_count 0 and a failure leaves it Open with the recovery timer
\* running from the time of that failure.
C5_ProbeDecides ==
  [][(breaker.state = HALF_OPEN /\ ProbeEnded)
     => /\ (result'.fnout \in Returns
             => breaker'.state = CLOSED /\ breaker'.failure_count = 0)
        /\ (result'.fnout \in Raises
             => /\ breaker'.state = OPEN
                /\ breaker'.last_failure_time = now
                /\ hist'.opened_at = now)]_vars

C5_Witness ==
  /\ result.kind = "execute"
  /\ result.fnout \in Raises
  /\ hist.probes = 1
  /\ breaker.state = OPEN
  /\ breaker.stats.state_changes = 3
  /\ breaker.last_failure_time = now
  /\ breaker.stats.failed_calls = 2

\* ------------------------------------------------------------------ C6
\* C6: a protected call of the collector that reaches the breaker check
\* once recovery_timeout has elapsed since the breaker opened is not
\* rejected with CircuitOpenError: the breaker leaves Open and the wrapped
\* API function is invoked.
C6_CollectorRecovers ==
  [][~(/\ ApiRejected
       /\ breaker.state = OPEN
       /\ now - hist.opened_at >= breaker.recovery_timeout)]_vars

\* ------------------------------------------------------------------ C7
\* C7: execute hands its caller exactly what fn ended with (fn's return
\* value, or fn's own exception), and raises CircuitOpenError only when fn
\* was not invoked.
C7_OriginalResult ==
  result.kind = "execute" =>
    /\ (result.fnout \in Returns => result.ret = Return(result.fnout))
    /\ (result.fnout \in Raises \cup {Cancelled}
          => result.ret = Raise(result.fnout))
    /\ (result.ret = Raise(CircuitOpenError) <=> result.fnout = "none")

C7_Witness ==
  /\ result.kind = "execute"
  /\ result.fnout = "TimeoutError"
  /\ result.ret = Raise("TimeoutError")
  /\ breaker.state = OPEN

\* ------------------------------------------------------------------ C8
\* C8: a call whose fn returns is recorded once as a success and a call
\* whose fn raises an Exception, a timeout included, once as a failure; a
\* failure moves failure_count, the breaker state and (in the collector)
\* the backoff in the same way whatever the exception is.
OpensOnFailure(b) ==
  b.state = HALF_OPEN \/ b.failure_count + 1 >= b.failure_threshold

C9_RejectionNotAFailure ==
  [][(ExecuteRejected \/ ApiRejected)
     => /\ breaker'.failure_count = breaker.failure_count
        /\ breaker'.last_failure_time = breaker.last_failure_time
        /\ breaker'.stats.last_failure_time = breaker.stats.last_failure_time
        /\ breaker'.stats.failed_calls = breaker.stats.failed_calls
        /\ breaker'.state = breaker.state
        /\ backoff' = backoff]_vars

C9_Witness ==
  /\ result.kind = "api"
  /\ result.ret = Raise(CircuitOpenError)
  /\ breaker.stats.rejected_calls = 1
  /\ breaker.state = OPEN

\* the acquire of task t returns in this step
AcquireReturned(t) ==
  /\ result'.kind = "acquire"
  /\ pc'[t] = "idle"
  /\ \/ pc[t] \in {"lock_wait", "acq_sleep"} /\ call[t].kind = "acquire"
     \/ pc[t] = "idle" /\ pc' = pc /\ CallStarted

\* tokens the acquire of task t found on taking the lock, and what the
\* _refill calls it made added, as seen in the step in which it returns
TokensBefore(t) ==
  IF pc[t] = "acq_sleep" THEN call[t].entry_tokens ELSE token_bucket.tokens

TokensRefilled(t) ==
  (IF pc[t] = "acq_sleep" THEN call[t].refilled ELSE 0)
    + (refill(token_bucket, now).tokens - token_bucket.tokens)

\* ----------------------------------------------------------------- C10
\* C10: in every reachable state of a TokenBucket, whatever acquire(n) and
\* try_acquire(n) calls have been made (n > capacity included),
\* 0 <= tokens <= capacity.
C10_TokensInRange ==
  /\ 0 <= token_bucket.tokens
  /\ token_bucket.tokens <= token_bucket.capacity

\* ----------------------------------------------------------------- C11
\* C11: acquire(n) with 0 < n <= capacity always returns, however many
\* callers share the bucket (the callers make finitely many calls, so in
\* the end none of them is left waiting), and when it returns exactly n
\* tokens have been deducted: tokens_after = tokens_before + tokens
\* refilled during the call - n.
C11_AcquireReturnsDeducted ==
  /\ [][\A t \in Tasks :
          (AcquireReturned(t) /\ result'.n <= token_bucket.capacity)
            => token_bucket'.tokens
                 = TokensBefore(t) + TokensRefilled(t) - result'.n]_vars
  /\ <>[](\A t \in Tasks :
             ~(/\ pc[t] \in {"lock_wait", "acq_sleep"}
               /\ call[t].kind = "acquire"
               /\ call[t].n <= token_bucket.capacity))

C11_Witness ==
  /\ result.kind = "acquire"
  /\ result.n = 2
  /\ result.wait = 2
  /\ token_bucket.capacity = 2
  /\ token_bucket.tokens = 0
  /\ hist.calls = 3
  /\ \A t \in Tasks : pc[t] = "idle"

\* ----------------------------------------------------------------- C12
\* C12: acquire(n) with n > capacity is not rejected: it waits for as long
\* as refilling the missing tokens takes, then returns with the n tokens
\* deducted; in the end no such call is left waiting.
C12_OversizedGranted ==
  /\ [][\A t \in Tasks :
          (AcquireReturned(t) /\ result'.n > token_bucket.capacity)
            => /\ pc[t] = "acq_sleep"
               /\ result'.ret = Return("wait_time")
               /\ result'.wait > 0
               /\ now >= call[t].wake_at
               /\ call[t].entry_tokens + call[t].refilled
                    + result'.wait * token_bucket.refill_rate >= result'.n
               /\ token_bucket'.tokens
                    = TokensBefore(t) + TokensRefilled(t) - result'.n]_vars
  /\ <>[](\A t \in Tasks :
             ~(/\ pc[t] \in {"lock_wait", "acq_sleep"}
               /\ call[t].kind = "acquire"
               /\ call[t].n > token_bucket.capacity))

C12_Witness ==
  /\ result.kind = "acquire"
  /\ result.n = 3
  /\ result.wait = 2
  /\ token_bucket.capacity = 1
  /\ token_bucket.refill_rate = 1
  /\ hist.calls = 1
  /\ \A t \in Tasks : pc[t] = "idle"

\* ----------------------------------------------------------------- C13
\* C13: with concurrent callers of one TokenBucket nothing touches the
\* bucket while a caller sleeps under its lock, a caller the budget does not
\* cover returns from acquire no sooner than its wait is over, and the
\* tokens granted in any interval of length t never exceed
\* capacity + refill_rate * t.
C13_SerializedWithinRate ==
  /\ [](hist.burst <= token_bucket.capacity)
  /\ [](Cardinality({t \in Tasks : pc[t] = "acq_sleep"}) <= 1)
  /\ [][\A t \in Tasks :
          /\ (pc[t] = "acq_sleep" /\ pc'[t] = "acq_sleep")
               => /\ token_bucket'.tokens = token_bucket.tokens
                  /\ token_bucket'.last_refill = token_bucket.last_refill
                  /\ token_bucket'.locked_by = t
          /\ (pc[t] = "acq_sleep" /\ pc'[t] # "acq_sleep")
               => now >= call[t].wake_at]_vars

\* ----------------------------------------------------------------- C14
\* C14: once a bucket of capacity C and refill rate R has gone C/R ticks
\* without consumption, a refill leaves exactly C tokens available, whatever
\* the count was before; and no refill leaves more than C.
C14_IdleRefillSaturates ==
  /\ available_tokens(refill(token_bucket, now)) <= token_bucket.capacity
  /\ ((now - token_bucket.last_refill) * token_bucket.refill_rate
         >= token_bucket.capacity)
       => available_tokens(refill(token_bucket, now)) = token_bucket.capacity

AcquireCancelled(t) ==
  /\ pc[t] = "acq_sleep"
  /\ pc'[t] = "idle"
  /\ result'.ret = Raise(Cancelled)

C16_CancelledWaitReleases ==
  /\ [][\A t \in Tasks :
          AcquireCancelled(t)
            => /\ token_bucket'.tokens = token_bucket.tokens
               /\ token_bucket'.locked_by = None
               /\ token_bucket'.waiters = token_bucket.waiters
               /\ hist'.burst = hist.burst
               /\ result'.n = call[t].n]_vars
  /\ [](\A t \in Tasks :
         (/\ token_bucket.locked_by = None
          /\ token_bucket.waiters # <<>>
          /\ Head(token_bucket.waiters) = t)
           => ENABLED LockGranted(t))

C16_Witness ==
  /\ result.ret = Raise(Cancelled)
  /\ result.n = 3
  /\ now = 1
  /\ token_bucket.tokens = token_bucket.capacity
  /\ token_bucket.locked_by = None
  /\ Len(token_bucket.waiters) = 1
  /\ hist.burst = 0

\* ----------------------------------------------------------------- C17
\* C17: after any sequence of next_delay() and reset() calls,
\* base_delay <= current_delay <= max_delay.
C17_DelayInRange ==
  /\ backoff.base_delay <= backoff.current_delay
  /\ backoff.current_delay <= backoff.max_delay

C17_Witness ==
  /\ backoff.base_delay = 3
  /\ backoff.max_delay = 10
  /\ backoff.multiplier = 2
  /\ backoff.failure_count = 3
  /\ backoff.current_delay = 10

\* ----------------------------------------------------------------- C18
\* C18: next_delay() returns a value within d*(1 - jitter) .. d*(1 + jitter)
\* for d the current_delay before the call, sets current_delay to
\* min(d * multiplier, max_delay) and adds one to failure_count; after k
\* calls without a reset current_delay = min(base_delay * multiplier^k,
\* max_delay).
RECURSIVE Pow(_, _)
Pow(b, k) == IF k = 0 THEN 1 ELSE b * Pow(b, k - 1)

NextDelayCalled == result'.kind = "next_delay" /\ CallStarted

C18_NextDelayGrows ==
  /\ [][NextDelayCalled
          => /\ result'.wait * backoff.jitter_den
                  >= backoff.current_delay
                       * (backoff.jitter_den - backoff.jitter_num)
             /\ result'.wait * backoff.jitter_den
                  <= backoff.current_delay
                       * (backoff.jitter_den + backoff.jitter_num)
             /\ backoff'.current_delay
                  = Min(backoff.current_delay * backoff.multiplier,
                        backoff.max_delay)
             /\ backoff'.failure_count = backoff.failure_count + 1]_vars
  /\ [](backoff.current_delay
          = Min(backoff.base_delay
                  * Pow(backoff.multiplier, backoff.failure_count),
                backoff.max_delay))

C18_Witness ==
  /\ result.kind = "next_delay"
  /\ result.wait = 11
  /\ backoff.base_delay = 5
  /\ backoff.multiplier = 2
  /\ backoff.failure_count = 2
  /\ backoff.current_delay = 20


\* ------------------------------------------- claims on the update registry
\* a step in which get_symbols_needing_update returned
GetDueReturned ==
  /\ result'.kind = "get_due"
  /\ hist'.calls = hist.calls + 1
  /\ registry' = registry
  /\ now' = now

Range(f) == {f[i] : i \in DOMAIN f}

\* the tracker row of symbol s for data type k, as the registry stands
RowOf(s, k) == registry.tracker[s][k]

NeverUpdated(s, k) == RowOf(s, k).update_count = 0

\* the entities the registry's contract calls due for kind k at this moment
DueEntities(k) ==
  {s \in Symbols :
     /\ registry.is_active[s]
     /\ \/ NeverUpdated(s, k)
        \/ RowOf(s, k).last_update
             < now - DEFAULT_UPDATE_CONFIGS[k].update_interval_hours
        \/ RowOf(s, k).last_status = "failed"}

\* entities whose last update of kind k succeeded within the interval
FreshEntities(k) ==
  {s \in Symbols :
     /\ ~NeverUpdated(s, k)
     /\ RowOf(s, k).last_status = "success"
     /\ RowOf(s, k).last_update
          >= now - DEFAULT_UPDATE_CONFIGS[k].update_interval_hours}

\* C19: a due-list query whose limit is at least the number of due entities
\* returns exactly the active entities that have no record for the kind, or
\* were last updated before now - interval, or last failed, each once; and
\* no query returns an entity whose last update succeeded within the
\* interval
C19_DueSetExact ==
  [][GetDueReturned =>
       LET k == result'.data_type
           items == result'.items
       IN  /\ result'.n >= Cardinality(DueEntities(k)) =>
                /\ Range(items) = DueEntities(k)
                /\ Len(items) = Cardinality(DueEntities(k))
           /\ Range(items) \cap FreshEntities(k) = {}]_vars

\* a query that was not truncated returned an entity that failed within
\* the interval and left out an active one that succeeded within it
C19_Witness ==
  /\ result.kind = "get_due"
  /\ result.n >= Cardinality(DueEntities(result.data_type))
  /\ \E s \in Range(result.items), f \in FreshEntities(result.data_type) :
       /\ RowOf(s, result.data_type).last_status = "failed"
       /\ RowOf(s, result.data_type).last_update
            >= now - DEFAULT_UPDATE_CONFIGS[result.data_type]
                       .update_interval_hours
       /\ registry.is_active[f]
       /\ f \notin Range(result.items)

\* C20: in the list a due-list query returns, every entity with no prior
\* record precedes every previously updated one, the previously updated
\* ones come in non-decreasing last_update order, and a truncated list is a
\* prefix of that order: a due entity that was left out ranks no earlier
\* than any entity kept, and a never-updated entity is left out only when
\* the limit is smaller than the number of never-updated due entities
C20_NeverUpdatedFirstOldestNext ==
  [][GetDueReturned =>
       LET k == result'.data_type
           limit == result'.n
           items == result'.items
           due == DueEntities(k)
           fresh == {s \in due : NeverUpdated(s, k)}
           Before(a, b) ==
             \/ NeverUpdated(a, k)
             \/ /\ ~NeverUpdated(b, k)
                /\ RowOf(a, k).last_update <= RowOf(b, k).last_update
       IN  /\ Range(items) \subseteq due
           /\ Len(items) = Min(limit, Cardinality(due))
           /\ \A i, j \in 1..Len(items) :
                i < j => /\ items[i] # items[j]
                         /\ Before(items[i], items[j])
           /\ \A kept \in Range(items), out \in due \ Range(items) :
                Before(kept, out)
           /\ (fresh \ Range(items) # {}) => limit < Cardinality(fresh)]_vars

\* a query cut by its limit kept the never-updated entity and left out a
\* due entity that had been updated before
C20_Witness ==
  /\ result.kind = "get_due"
  /\ result.n < Cardinality(DueEntities(result.data_type))
  /\ Len(result.items) = result.n
  /\ \A s \in Range(result.items) : NeverUpdated(s, result.data_type)
  /\ \E out \in DueEntities(result.data_type) \ Range(result.items) :
       ~NeverUpdated(out, result.data_type)


\* a step in which mark_symbol_updated returned
MarkReturned ==
  /\ result'.kind = "mark"
  /\ hist'.calls = hist.calls + 1
  /\ now' = now

\* a mark that repeats the previous mark: same symbol, data type and
\* status, made at the same instant
MarkRepeated ==
  /\ MarkReturned
  /\ hist'.marked = hist.marked

\* C21: the second of two identical mark calls made at the same instant
\* leaves the stored record, field for field, as the first call left it
\* (the tracker holds one record per (symbol, data type) by construction)
C21_IdenticalMarksIdempotent ==
  [][MarkRepeated => registry'.tracker = registry.tracker]_vars


\* a due-list query for the data type of the last mark returned, that mark
\* had status st and was the call made just before the query, and the
\* query's limit does not truncate the list
NextQueryAfterMark(st) ==
  /\ GetDueReturned
  /\ result.kind = "mark"
  /\ hist.marked.status = st
  /\ result'.data_type = hist.marked.data_type
  /\ result'.n >= Cardinality(DueEntities(hist.marked.data_type))

\* C22 as stated: after a mark with status failed, the very next due-list
\* query for that data type whose limit does not truncate the list contains
\* the marked entity, however little time has passed
C22_FailedMarkEligible ==
  [][NextQueryAfterMark("failed") =>
       hist.marked.symbol \in Range(result'.items)]_vars

\* C22 amended: after a mark with status failed on an active entity, the
\* very next due-list query for that data type whose limit does not
\* truncate the list contains the entity, however little time has passed
C22_FailedMarkEligibleIfActive ==
  [][NextQueryAfterMark("failed")
       /\ registry.is_active[hist.marked.symbol] =>
       hist.marked.symbol \in Range(result'.items)]_vars

\* an active entity was marked failed and, with no time passed, returned by
\* an untruncated due-list query for the same data type
C22_Witness ==
  /\ result.kind = "get_due"
  /\ hist.marked.status = "failed"
  /\ hist.marked.at = now
  /\ hist.calls = 2
  /\ result.data_type = hist.marked.data_type
  /\ result.n >= Cardinality(DueEntities(result.data_type))
  /\ registry.is_active[hist.marked.symbol]
  /\ hist.marked.symbol \in Range(result.items)


\* a due-list query returned for the data type of the last mark, and that
\* mark had status success: no mark for its key came after it
QueryAfterSuccess ==
  /\ GetDueReturned
  /\ hist.marked.status = "success"
  /\ result'.data_type = hist.marked.data_type

\* the end of the interval the last mark opened
MarkedUntil ==
  hist.marked.at
    + DEFAULT_UPDATE_CONFIGS[hist.marked.data_type].update_interval_hours

\* C23 as stated: after a mark with status success at time t and no
\* further mark for that key, a due-list query for the data type does not
\* return the entity before t + interval, and returns it, limit permitting,
\* after t + interval
C23_SuccessHidesForInterval ==
  [][QueryAfterSuccess =>
       /\ now < MarkedUntil =>
            hist.marked.symbol \notin Range(result'.items)
       /\ now > MarkedUntil
            /\ result'.n >= Cardinality(DueEntities(result'.data_type)) =>
            hist.marked.symbol \in Range(result'.items)]_vars

\* C23 amended: after a mark with status success at time t and no further
\* mark for that key, a due-list query for the data type does not return
\* the entity before t + interval, and returns it, limit permitting, after
\* t + interval if the entity is active
C23_SuccessHidesForIntervalIfActive ==
  [][QueryAfterSuccess =>
       /\ now < MarkedUntil =>
            hist.marked.symbol \notin Range(result'.items)
       /\ now > MarkedUntil
            /\ registry.is_active[hist.marked.symbol]
            /\ result'.n >= Cardinality(DueEntities(result'.data_type)) =>
            hist.marked.symbol \in Range(result'.items)]_vars

\* an active entity marked with success came back in a due-list query
\* made after its interval had passed
C23_Witness ==
  /\ result.kind = "get_due"
  /\ hist.marked.status = "success"
  /\ result.data_type = hist.marked.data_type
  /\ now > MarkedUntil
  /\ registry.is_active[hist.marked.symbol]
  /\ hist.marked.symbol \in Range(result.items)


\* the columns of a tracker record in which mark_symbol_updated keeps a
\* number (lines 135-146); it writes no column named consecutive_failures
CounterColumns == {"update_count", "priority"}

\* C24: after any sequence of marks, each record's consecutive_failures
\* equals the number of failed marks made for its key since the last
\* successful one.  Read in the code's favour: some number the record
\* keeps equals that count
C24_ConsecutiveFailuresCounted ==
  \A s \in Symbols, k \in DataType :
     RowOf(s, k) # NoRecord =>
       \E column \in CounterColumns :
          RowOf(s, k)[column] = hist.failed_marks[s][k]


\* a step in which mark_symbol_updated(..., "success") returned
SuccessMarked ==
  /\ MarkReturned
  /\ hist'.marked.status = "success"

\* the record of the key just marked, before and after the call
MarkedBefore == registry.tracker[hist'.marked.symbol][hist'.marked.data_type]
MarkedAfter == registry'.tracker[hist'.marked.symbol][hist'.marked.data_type]

\* C25 as stated: a mark with status success at time now sets next_due to
\* now + interval, strictly later than the next_due the record held before
C25_SuccessAdvancesNextDue ==
  [][SuccessMarked =>
       /\ MarkedAfter.next_update_due
            = now + DEFAULT_UPDATE_CONFIGS[hist'.marked.data_type]
                      .update_interval_hours
       /\ MarkedBefore # NoRecord =>
            MarkedAfter.next_update_due > MarkedBefore.next_update_due]_vars

\* C25 amended: a mark with status success at time now sets next_due to
\* now + interval, which is strictly later than the next_due the record
\* held before when now is later than the record's previous last_update,
\* and equal to it when the previous mark was made at the same instant
C25_SuccessAdvancesNextDueWithTime ==
  [][SuccessMarked =>
       /\ MarkedAfter.next_update_due
            = now + DEFAULT_UPDATE_CONFIGS[hist'.marked.data_type]
                      .update_interval_hours
       /\ MarkedBefore # NoRecord /\ now > MarkedBefore.last_update =>
            MarkedAfter.next_update_due > MarkedBefore.next_update_due
       /\ MarkedBefore # NoRecord /\ now = MarkedBefore.last_update =>
            MarkedAfter.next_update_due = MarkedBefore.next_update_due]_vars

\* a mark with status success rewrote a record that an earlier mark had
\* made, at a later time than the start of the behaviour
C25_Witness ==
  /\ result.kind = "mark"
  /\ hist.marked.status = "success"
  /\ hist.marked.at = now
  /\ now > 1
  /\ RowOf(hist.marked.symbol, hist.marked.data_type).update_count >= 2
  /\ RowOf(hist.marked.symbol, hist.marked.data_type).next_update_due
       = now + DEFAULT_UPDATE_CONFIGS[hist.marked.data_type]
                 .update_interval_hours


\* a step in which get_priority_update_queue returned
GetQueueReturned ==
  /\ result'.kind = "get_queue"
  /\ hist'.calls = hist.calls + 1
  /\ registry' = registry
  /\ now' = now

\* every due (entity, kind) item, across the data types
DueItems == {<<s, k>> \in Symbols \X DataType : s \in DueEntities(k)}

\* C26: get_priority_update_queue(max_items) returns the first max_items
\* entries of the list of all due (entity, kind) items sorted by the
\* kind's priority and then by staleness: each entry is a due item, no
\* item comes twice, priorities do not decrease along the list, within a
\* kind never-updated entities come first and then the oldest, the list
\* has max_items entries or all due items, and no due item of a
\* higher-priority kind is left out while an item of a lower-priority kind
\* is in
C26_QueueIsPriorityPrefix ==
  [][GetQueueReturned =>
       LET queue == result'.items
           max_items == result'.n
           In == {<<queue[i].symbol, queue[i].data_type>> :
                    i \in 1..Len(queue)}
           prio(k) == DEFAULT_UPDATE_CONFIGS[k].priority
           Staler(a, b, k) ==
             \/ NeverUpdated(a, k)
             \/ /\ ~NeverUpdated(b, k)
                /\ RowOf(a, k).last_update <= RowOf(b, k).last_update
       IN  /\ In \subseteq DueItems
           /\ Cardinality(In) = Len(queue)
           /\ Len(queue) = Min(max_items, Cardinality(DueItems))
           /\ \A i, j \in 1..Len(queue) :
                i < j =>
                  /\ queue[i].priority = prio(queue[i].data_type)
                  /\ queue[i].priority <= queue[j].priority
                  /\ queue[i].data_type = queue[j].data_type =>
                       Staler(queue[i].symbol, queue[j].symbol,
                              queue[i].data_type)
           /\ \A out \in DueItems \ In, kept \in In :
                prio(out[2]) >= prio(kept[2])]_vars


\* ---------------------------------------------------- claims on the worker
\* when the worker last finished update b, and how often b is to run
LastUpdate(w, b) ==
  IF b = "vn30" THEN w.last_vn30_update
  ELSE IF b = "top100" THEN w.last_top100_update
  ELSE IF b = "listings" THEN w.last_all_update
  ELSE w.last_screener_update

IntervalOf(w, b) ==
  IF b = "vn30" THEN w.vn30_interval
  ELSE IF b = "top100" THEN w.top100_interval
  ELSE IF b = "listings" THEN w.all_stocks_interval
  ELSE w.screener_interval

\* update b has outstanding work: it never ran, or its interval has elapsed
Outstanding(b) ==
  \/ LastUpdate(worker, b) = None
  \/ now - LastUpdate(worker, b) >= IntervalOf(worker, b)

\* a step in which the loop called run_update_cycle
CycleRan ==
  /\ worker.at \in {"initialize", "sleep", "error_sleep"}
  /\ ~worker.must_cancel
  /\ worker'.running
  /\ worker' # worker
  /\ worker'.at \in {"batch", "sleep"}

\* a step in which the worker entered an update
BatchStarted ==
  /\ worker'.at = "batch"
  /\ \/ worker.at # "batch"
     \/ worker'.in_batch # worker.in_batch
     \/ \E i \in 1..Len(Batches) :
          LastUpdate(worker', Batches[i]) # LastUpdate(worker, Batches[i])

\* C27: a call of run_update_cycle starts at most one update, the first in
\* the order VN30, top stocks, listings, screener that has outstanding
\* work, and none when nothing is outstanding; no update starts outside
\* such a call
C27_OneBatchFirstOutstanding ==
  [][/\ CycleRan =>
          LET due == {i \in 1..Len(Batches) : Outstanding(Batches[i])}
          IN  IF due = {} THEN worker'.at = "sleep"
              ELSE /\ worker'.at = "batch"
                   /\ \E i \in due :
                        /\ \A j \in due : i <= j
                        /\ worker'.in_batch = Batches[i]
     /\ BatchStarted => CycleRan]_vars

\* the worker is in the listings update while the screener, lower in the
\* order, has outstanding work too and VN30 and top stocks have none
C27_Witness ==
  /\ worker.at = "batch"
  /\ worker.in_batch = "listings"
  /\ worker.last_screener_update = None
  /\ worker.last_vn30_update # None
  /\ worker.last_top100_update # None


\* a step in which an Exception left run_update_cycle
CycleRaised ==
  /\ worker.at = "batch"
  /\ ~worker.must_cancel
  /\ worker'.at # "batch"
  /\ result'.kind = "run_update_cycle"
  /\ result'.ret.kind = "raise"

\* C28: an Exception raised inside an update cycle does not end the worker
\* loop: it is caught and the cycle abandoned, the worker stays running and
\* waits, and unless it is stopped meanwhile the end of that wait runs
\* run_update_cycle again
C28_CycleErrorKeepsLoop ==
  /\ [][/\ CycleRaised =>
             /\ worker'.at = "error_sleep"
             /\ worker'.running
        /\ worker.at = "error_sleep" /\ ~worker.must_cancel
             /\ worker'.at # "error_sleep" => CycleRan]_vars
  /\ [](worker.at = "error_sleep" /\ ~worker.must_cancel
          /\ now >= worker.wake_at => ENABLED WorkerWake)

\* an Exception left a cycle, the worker waited its 60 seconds and is
\* about to run the next cycle
C28_Witness ==
  /\ result.kind = "run_update_cycle"
  /\ result.ret.kind = "raise"
  /\ worker.at = "error_sleep"
  /\ worker.running
  /\ ~worker.must_cancel
  /\ now >= worker.wake_at


\* C29: within one batch a failure on one item never aborts the batch:
\* when the batch has ended, every symbol of it was attempted
C29_FailureNeverAbortsBatch ==
  batch.state = "done" => batch.attempted = Symbols


\* stop_worker has been called on a worker whose task is not done: stop()
\* has cleared running inside the loop, or the task has not taken its
\* first step yet
StopSignalled ==
  \/ worker.at \in {"initialize", "batch", "sleep", "error_sleep"}
       /\ ~worker.running
  \/ worker.at = "created" /\ worker.must_cancel

\* C30: wherever the worker's task is (waiting for initialize, inside an
\* update, in either sleep of the loop, or not yet started), stop_worker
\* eventually brings it to the stopped state, and it enters no update
\* after the signal
C30_StopReachesStopped ==
  /\ StopSignalled ~> worker.at = "stopped"
  /\ [][StopSignalled => ~BatchStarted]_vars

\* the stop signal has arrived while the worker, past its first cycle, is
\* inside an update
C30_Witness ==
  /\ StopSignalled
  /\ worker.at = "batch"
  /\ worker.must_cancel
  /\ result.kind = "run_update_cycle"


\* ----------------------------------------------------------------- C31
\* no execute_task coroutine is in progress
NoTaskExecuting == \A t \in Tasks : scheduler.frames[t].at = "idle"

\* a call of execute_task on a disabled task in this step
ExecuteTaskDisabled ==
  /\ CallStarted
  /\ result'.kind = "execute_task"
  /\ \A t \in Tasks : scheduler'.frames[t].at = scheduler.frames[t].at

\* C31: execute_task on a disabled task changes no statistic, and
\* whenever no task is executing, run_count = success_count +
\* failure_count for every task (every run was counted as exactly one of
\* success and failure)
C31_RunsClassifiedOnce ==
  /\ [][ExecuteTaskDisabled => scheduler' = scheduler]_vars
  /\ [](NoTaskExecuting =>
          \A n \in TaskNames :
             scheduler.tasks[n].run_count
               = scheduler.tasks[n].success_count
                   + scheduler.tasks[n].failure_count)


\* ----------------------------------------------------------------- C32
\* the handler of t's task ends in this step, having run for longer than
\* the task's max_runtime
HandlerEndedOverBudget(t) ==
  /\ scheduler.frames[t].at = "handler"
  /\ scheduler'.frames[t].at # "handler"
  /\ now - scheduler.frames[t].entered
       > scheduler.tasks[scheduler.frames[t].task].max_runtime_minutes

\* C32: a task whose handler ran longer than its max_runtime budget is
\* recorded as timed out: its last_status says so and it is not counted
\* as a success
C32_OverBudgetTimedOut ==
  [][\A t \in Tasks :
        HandlerEndedOverBudget(t) =>
          LET name == scheduler.frames[t].task
          IN  /\ scheduler'.tasks[name].last_status = "timed_out"
              /\ scheduler'.tasks[name].success_count
                   = scheduler.tasks[name].success_count]_vars


\* ----------------------------------------------------------------- C33
\* C33: clear_failed_status allows retry: the due-list query that follows
\* a clear_failed_status, with a limit that cannot truncate the list,
\* returns every active symbol whose row for the data type was failed and
\* has been cleared (its last_status is pending)
C33_ClearedIsRetried ==
  [][/\ GetDueReturned
     /\ result.kind = "clear_failed"
     /\ result'.n >= NumSymbols
     => \A s \in Symbols :
          /\ registry.is_active[s]
          /\ RowOf(s, result'.data_type).last_status = "pending"
          => s \in Range(result'.items)]_vars


\* ----------------------------------------------------------------- C34
\* the active stocks that have no price version record
MissingPrice ==
  {s \in Symbols : registry.is_active[s] /\ data_versions[s] = None}

\* C34: every active stock without a price version record is among
\* symbols_to_update of the PRICE plan analyze_gaps returns, and PRICE is
\* in the returned gaps whenever there is such a stock
C34_GapsFindMissing ==
  result.kind = "analyze_gaps" =>
    /\ MissingPrice \subseteq Range(result.items)
    /\ MissingPrice # {} => result.data_type = PRICE

\* analyze_gaps returned a PRICE plan naming a stock without a version
\* record and leaving out one whose record is fresh
C34_Witness ==
  /\ result.kind = "analyze_gaps"
  /\ result.data_type = PRICE
  /\ \E s \in MissingPrice, f \in Symbols :
        /\ s \in Range(result.items)
        /\ data_versions[f] # None
        /\ f \notin Range(result.items)


\* ----------------------------------------------------------------- C35
\* a call arriving now would be rejected and would leave the breaker
\* HalfOpen
RejectsInHalfOpen ==
  /\ breaker.state = HALF_OPEN
  /\ ~should_allow_request(breaker, now).allow
  /\ should_allow_request(breaker, now).b.state = HALF_OPEN

\* C35: the breaker never stays HalfOpen rejecting every call: whenever it
\* is HalfOpen and rejects an arriving call, an admitted call is still in
\* progress whose outcome will close or reopen it, even when admitted
\* probes have been cancelled
C35_HalfOpenNotStuck ==
  RejectsInHalfOpen => \E t \in Tasks : pc[t] = "exec_fn"

\* ----------------------------------------------------------------- C36
\* C36: only the outcome of a call admitted while HalfOpen moves the
\* breaker out of HalfOpen: a call that ends while the breaker is HalfOpen
\* and closes or reopens it was admitted in HalfOpen
C36_OnlyProbeDecides ==
  [][\A t \in Tasks :
        /\ pc[t] = "exec_fn"
        /\ pc'[t] = "idle"
        /\ breaker.state = HALF_OPEN
        /\ breaker'.state # HALF_OPEN
        => call[t].admitted_in = HALF_OPEN]_vars

\* ----------------------------------------------------------------- C37
\* C37: in every reachable state of the breaker's statistics,
\* successful_calls + failed_calls <= total_calls, the collector's direct
\* record_success and record_failure included
C37_OutcomesWithinTotal ==
  breaker.stats.successful_calls + breaker.stats.failed_calls
    <= breaker.stats.total_calls


\* ----------------------------------------------------------------- C38
\* C38: get_priority_update_queue(max_symbols) with max_symbols >= 1
\* returns a non-empty queue whenever some (symbol, data type) is due
C38_QueueNotEmptyWhenDue ==
  [][GetQueueReturned /\ result'.n >= 1 /\ DueItems # {}
       => result'.items # <<>>]_vars


\* ----------------------------------------------------------------- C39
\* C39: in the summary get_update_summary returns after any marks, for
\* every data type up_to_date <= symbols_tracked and needing_update >= 0,
\* and the total needing_update is >= 0
C39_SummaryCountsConsistent ==
  result.kind = "get_summary" =>
    LET summary == result.items
    IN  /\ \A k \in DataType :
             /\ summary.by_data_type[k].up_to_date
                  <= summary.totals.symbols_tracked
             /\ summary.by_data_type[k].needing_update >= 0
        /\ summary.totals.needing_update >= 0


\* ----------------------------------------------------------------- C40
\* the tasks running DataWorker.start(): the one _worker_task names, if it
\* is not done, and those it named before
LoopsRunning ==
  worker.orphans + (IF TaskLive(worker) THEN 1 ELSE 0)

\* C40: after any interleaving of start_worker and stop_worker calls at
\* most one DataWorker loop is running, and no step creates a task while a
\* loop is running (stop_worker waiting for it included)
C40_AtMostOneLoop ==
  /\ [](LoopsRunning <= 1)
  /\ [][TaskLive(worker) /\ worker.at # "created"
          => worker'.at # "created"]_vars

\* start_worker was called while stop_worker was waiting for the loop, in
\* an update, to take its cancel: it started nothing
C40_Witness ==
  /\ result.kind = "start_worker"
  /\ result.ret.value = "already running"
  /\ worker.at = "batch"
  /\ worker.must_cancel
  /\ LoopsRunning = 1

====
